---- MODULE Spec2Model ----
(***************************************************************************)
(* The vanilla language: the single-pass compiler (compiler.rs), the type  *)
(* relation (types.rs), the bytecode (op.rs) and the stack VM (vm.rs) with *)
(* its built-ins (standard/).  A program is a token sequence, as the       *)
(* scanner hands it to the compiler; compile is a function of it, and the  *)
(* VM runs the compiled chunk one instruction per step.                    *)
(***************************************************************************)
EXTENDS Integers, Sequences, FiniteSets, TLC

VARIABLES
    tokens,     \* the program: the token sequence Compiler::new scans
    compiler,   \* the Compiler, with the call stack of its routines
    phase,      \* "compiling" | "running" | "done" | "compile_error" | "error" | "panic"
    stack,      \* VM.stack
    locals,     \* VM.locals
    frames,     \* the Rust call stack of VM::run / Map::call / Loop::call activations
    out,        \* what print and println wrote to stdout
    files,      \* what write left in the file system: a set of [path, content]
    error,      \* the vm::Error an aborted run returned
    overflow_checks,  \* the build: TRUE panics on integer overflow, FALSE wraps
    types,      \* <<self, constraint>> of a call of Type::satisfies, or <<>>
    satisfied,  \* <<b>> when that call has returned b, or <<>>
    scanner     \* the Scanner of a scan of a source on its own, or <<>>

vars == <<tokens, compiler, phase, stack, locals, frames, out, files, error,
          overflow_checks, types, satisfied, scanner>>

(***************************************************************************)
(* op.rs: the opcodes.                                                     *)
(***************************************************************************)
POP == 0
PUSH == 1
PUSH_LOCAL == 2
POP_LOCAL == 3
GET_LOCAL == 4
GET_UPVALUE == 5
GET_GLOBAL == 6
CALL == 7
MAKE_ARRAY == 8
MAKE_BLOCK == 9
INDEX == 10
MAKE_CLOSURE == 11
OR == 12
AND == 13
ADD == 14
CONCATENATE == 15
SUBTRACT == 16
MULTIPLY == 17
DIVIDE == 18
EQUAL == 19
NOT_EQUAL == 20
GREATER_THAN == 21
GREATER_THAN_EQUAL == 22
LESS_THAN == 23
LESS_THAN_EQUAL == 24
NEGATE == 25
NOT == 26
JUMP == 27
JUMP_IF_FALSE == 28

\* The opcodes followed by a big-endian u16 operand.
HasOperand(op) ==
    op \in {PUSH, GET_LOCAL, GET_UPVALUE, GET_GLOBAL, CALL, MAKE_ARRAY,
            MAKE_BLOCK, CONCATENATE, JUMP, JUMP_IF_FALSE}

U16 == 256 * 256

\* u16::to_be_bytes
to_be_bytes(n) == <<(n \div 256) % 256, n % 256>>

\* Chunk::new
NewChunk == [code |-> <<>>, constants |-> <<>>]

\* Chunk::write
ChunkWrite(chunk, byte) == [chunk EXCEPT !.code = Append(@, byte)]

\* Chunk::write_pair
ChunkWritePair(chunk, op, index) ==
    [chunk EXCEPT !.code = @ \o <<op>> \o to_be_bytes(index)]

\* Chunk::add_constant: the new pool; the index it returns is the old length.
ChunkAddConstant(chunk, value) == [chunk EXCEPT !.constants = Append(@, value)]

\* Chunk::read_u16 at 0-based offset i (the caller checks i + 2 <= len).
read_u16(code, i) == code[i + 1] * 256 + code[i + 2]

(***************************************************************************)
(* types.rs: the static types.                                             *)
(***************************************************************************)
TNumber == [t |-> "Number"]
TString == [t |-> "String"]
TBoolean == [t |-> "Boolean"]
TAny == [t |-> "Any"]
TUnknown == [t |-> "Unknown"]
TNil == [t |-> "Nil"]
TArray(elem) == [t |-> "Array", elem |-> elem]
\* fields: a sequence of [name, type]
TBlock(fields) == [t |-> "Block", fields |-> fields]
TFunction(params, ret) == [t |-> "Function", params |-> params, ret |-> ret]

SetMax(S) == CHOOSE x \in S : \A y \in S : y <= x
SetMin(S) == CHOOSE x \in S : \A y \in S : x <= y
MinOf(a, b) == IF a < b THEN a ELSE b

\* Every type passing for every other.
AlwaysSatisfies(self, constraint) == TRUE

RECURSIVE satisfies(_, _)
\* Type::satisfies.  In the Block arm `has` is overwritten by every field of
\* t1 whose key matches, so the last matching field decides.
satisfies(self, constraint) ==
    IF constraint = TAny THEN TRUE
    ELSE CASE self.t = "Number" /\ constraint.t = "Number" -> TRUE
           [] self.t = "String" /\ constraint.t = "String" -> TRUE
           [] self.t = "Boolean" /\ constraint.t = "Boolean" -> TRUE
           [] self.t = "Array" /\ constraint.t = "Array" ->
                satisfies(self.elem, TNil) \/ satisfies(self.elem, constraint.elem)
           [] self.t = "Block" /\ constraint.t = "Block" ->
                \A i \in 1..Len(constraint.fields) :
                    LET same == {j \in 1..Len(self.fields) :
                                    self.fields[j].name = constraint.fields[i].name}
                    IN  /\ same # {}
                        /\ satisfies(self.fields[SetMax(same)].type,
                                     constraint.fields[i].type)
           [] self.t = "Any" -> TRUE
           [] self.t = "Function" /\ constraint.t = "Function" ->
                /\ \A i \in 1..MinOf(Len(self.params), Len(constraint.params)) :
                       satisfies(self.params[i], constraint.params[i])
                /\ satisfies(self.ret, constraint.ret)
           [] self.t = "Nil" /\ constraint.t = "Nil" -> TRUE
           [] OTHER -> FALSE

(***************************************************************************)
(* value.rs: the run-time values.  A Function value carries the compiled   *)
(* function itself (Rc<Function>), a Closure its function and upvalues.    *)
(***************************************************************************)
NumberV(n) == [v |-> "Number", n |-> n]
BooleanV(b) == [v |-> "Boolean", b |-> b]
StringV(s) == [v |-> "String", s |-> s]
ArrayV(items) == [v |-> "Array", items |-> items]
BlockV(items) == [v |-> "Block", items |-> items]
FunctionV(f) == [v |-> "Function", function |-> f]
ClosureV(f, upvalues) == [v |-> "Closure", function |-> f, upvalues |-> upvalues]
BuiltInV(i) == [v |-> "BuiltIn", index |-> i]

IsObject(val) == val.v \notin {"Number", "Boolean"}

RECURSIVE Display(_)
RECURSIVE DisplayAll(_)
\* impl Display for Value / Object
Display(val) ==
    CASE val.v = "Number" -> ToString(val.n)
      [] val.v = "Boolean" -> IF val.b THEN "true" ELSE "false"
      [] val.v = "String" -> val.s
      [] val.v = "Array" -> DisplayAll(val.items)
      [] val.v = "Block" -> "(block)"
      [] val.v = "Function" -> "(function)"
      [] val.v = "Closure" -> "(closure)"
      [] val.v = "BuiltIn" -> "(built in)"
DisplayAll(items) ==
    IF items = <<>> THEN "" ELSE Display(Head(items)) \o DisplayAll(Tail(items))

(***************************************************************************)
(* standard/: the built-ins, in registry order (standard::get_functions).  *)
(***************************************************************************)
MapCallbackType == TFunction(<<TAny, TNumber>>, TAny)

get_functions ==
    << [name |-> "print", type |-> TFunction(<<TAny>>, TNil)],
       [name |-> "println", type |-> TFunction(<<TAny>>, TNil)],
       [name |-> "write", type |-> TFunction(<<TString, TAny>>, TNil)],
       [name |-> "map",
        type |-> TFunction(<<TArray(TAny), MapCallbackType>>, TArray(TAny))],
       [name |-> "loop", type |-> TFunction(<<TArray(TAny), MapCallbackType>>, TNil)],
       [name |-> "length", type |-> TFunction(<<TAny>>, TNumber)] >>

(***************************************************************************)
(* token.rs: a token is its TokenValue variant k with the payload of the   *)
(* Identifier and String variants in s and of Number and Boolean in n.     *)
(* The line a token carries only labels diagnostics and is left out.       *)
(***************************************************************************)
Tok(k) == [k |-> k, s |-> "", n |-> 0]
Id(s) == [k |-> "Identifier", s |-> s, n |-> 0]
Str(s) == [k |-> "String", s |-> s, n |-> 0]
Num(n) == [k |-> "Number", s |-> "", n |-> n]
Bool(b) == [k |-> "Boolean", s |-> "", n |-> IF b THEN 1 ELSE 0]
NL == Tok("Newline")

(***************************************************************************)
(* compiler.rs: Function, Local, Upvalue and the Compiler's state.         *)
(* A compiler state c is the Compiler struct plus the Result of the call   *)
(* that produced it: err.kind = "none" is Ok, anything else the Err that   *)
(* `?` hands up unchanged ("Panic": the thread panicked, "Hang": the call  *)
(* never returns).  ty holds the Type that type_ returned and marks the    *)
(* code offsets at which compile's loop finished a top-level expression.   *)
(***************************************************************************)
NoError == [kind |-> "none", args |-> <<>>]
Failed(c) == c.err.kind # "none"

\* Compiler::error
Fail(c, kind, args) == [c EXCEPT !.err = [kind |-> kind, args |-> args]]

\* Function::new
NewFunction(name) ==
    [name |-> name, chunk |-> NewChunk, locals |-> <<>>, upvalues |-> <<>>, depth |-> 0]

\* Compiler::new
NewCompiler(toks) ==
    [tokens |-> toks, pos |-> 1, functions |-> <<>>,
     globals |-> get_functions, last_type |-> TNil, unresolved_types |-> <<>>,
     err |-> NoError, ty |-> TNil, marks |-> {}, todo |-> <<>>]

\* Compiler::get_function
get_function(c) == c.functions[Len(c.functions)]

SetFunction(c, f) == [c EXCEPT !.functions[Len(c.functions)] = f]

CodeLen(c) == Len(get_function(c).chunk.code)

\* chunk.write / chunk.write_pair / chunk.add_constant on get_function()
Emit(c, byte) ==
    SetFunction(c, [get_function(c) EXCEPT !.chunk = ChunkWrite(@, byte)])
EmitPair(c, op, index) ==
    SetFunction(c, [get_function(c) EXCEPT !.chunk = ChunkWritePair(@, op, index)])
\* add_constant followed by write_pair(PUSH, constant)
EmitConstant(c, value) ==
    LET f == get_function(c)
        constant == Len(f.chunk.constants)
    IN  SetFunction(c, [f EXCEPT !.chunk =
                           ChunkWritePair(ChunkAddConstant(@, value), PUSH, constant)])

\* Compiler::peek is Some
AtEnd(c) == c.pos > Len(c.tokens)
peek(c) == c.tokens[c.pos]

\* Compiler::next
next(c) == IF AtEnd(c) THEN c ELSE [c EXCEPT !.pos = @ + 1]

\* Compiler::has
has(c, k) == ~AtEnd(c) /\ peek(c).k = k

RECURSIVE ignore_whitespace(_)
\* Compiler::ignore_whitespace
ignore_whitespace(c) == IF has(c, "Newline") THEN ignore_whitespace(next(c)) ELSE c

\* Function::add_local
add_local(f, name, type) ==
    [f EXCEPT !.locals = Append(@, [name |-> name, index |-> Len(f.locals),
                                    depth |-> f.depth, type |-> type])]

\* Function::add_upvalue: the index it returns, and the function it leaves.
UpvalueSlots(f, index, is_local) ==
    {i \in 1..Len(f.upvalues) :
        f.upvalues[i].index = index /\ f.upvalues[i].is_local = is_local}
add_upvalue_index(f, index, is_local) ==
    IF UpvalueSlots(f, index, is_local) # {}
    THEN SetMin(UpvalueSlots(f, index, is_local)) - 1
    ELSE Len(f.upvalues)
add_upvalue(f, index, is_local) ==
    IF UpvalueSlots(f, index, is_local) # {} THEN f
    ELSE [f EXCEPT !.upvalues = Append(@, [index |-> index, is_local |-> is_local])]

\* Function::begin_scope
begin_scope(f) == [f EXCEPT !.depth = @ + 1]

\* Function::end_scope: one POP_LOCAL per local deeper than the new depth.
end_scope(f) ==
    LET depth == f.depth - 1
        kept == SelectSeq(f.locals, LAMBDA l : l.depth <= depth)
        gone == Len(f.locals) - Len(kept)
    IN  [f EXCEPT !.depth = depth,
                  !.locals = kept,
                  !.chunk.code = @ \o [i \in 1..gone |-> POP_LOCAL]]

\* Function::resolve: the first local of that name, as a sequence of 0 or 1.
resolve(f, name) ==
    LET named == {i \in 1..Len(f.locals) : f.locals[i].name = name}
    IN  IF named = {} THEN <<>> ELSE <<f.locals[SetMin(named)]>>

BeginScope(c) == SetFunction(c, begin_scope(get_function(c)))
EndScope(c) == SetFunction(c, end_scope(get_function(c)))

\* Compiler::assert_type
assert_type(c, expected) ==
    IF c.last_type = TUnknown
    THEN IF c.unresolved_types = <<>>
         THEN Fail(c, "Panic", <<>>)
         ELSE LET n == c.unresolved_types[Len(c.unresolved_types)]
                  f == get_function(c)
                  patched == [i \in 1..Len(f.locals) |->
                                 IF f.locals[i].name = n
                                 THEN [f.locals[i] EXCEPT !.type = expected]
                                 ELSE f.locals[i]]
              IN  [SetFunction(c, [f EXCEPT !.locals = patched])
                      EXCEPT !.unresolved_types = SubSeq(@, 1, Len(@) - 1),
                             !.last_type = expected]
    ELSE IF ~satisfies(c.last_type, expected)
         THEN Fail(c, "TypeMismatch", <<c.last_type, expected>>)
         ELSE [c EXCEPT !.last_type = expected]

\* Compiler::assert_type_with_error
assert_type_with_error(c, expected, kind, args) ==
    LET r == assert_type(c, expected)
    IN  IF Failed(r) THEN Fail(c, kind, args) ELSE r

(***************************************************************************)
(* compiler.rs: the recursive descent.  The Rust call stack is c.todo: an  *)
(* item names a routine, the point `at` where it resumes and its local     *)
(* variables v.  A routine runs from that point to its next call or its    *)
(* return; the calls it makes are put in front of its own resumption.      *)
(* Then is the `?` operator: an Err ends the compilation.                  *)
(***************************************************************************)
Then(c, Op(_)) == IF Failed(c) THEN c ELSE Op(c)

Item(fn, at, v) == [fn |-> fn, at |-> at, v |-> v]
Go(fn) == Item(fn, 0, <<>>)
Do(c, items) == [c EXCEPT !.todo = items \o @]
Expr(keep) == Item("expression", 0, keep)

\* Compiler::expression
expression(c, at, keep) ==
    CASE at = 0 -> Do(c, <<Go("or"), Item("expression", 1, keep)>>)
      [] at = 1 ->
           IF c.last_type.t = "Function"
           THEN Do(c, <<Go("execute_call"), Item("expression", 2, keep)>>)
           ELSE Do(c, <<Item("expression", 2, keep)>>)
      [] at = 2 -> IF ~keep /\ c.last_type # TNil THEN Emit(c, POP) ELSE c

\* The shape or, and, equality, comparison, addition and multiplication
\* share: an operand, then while one of the operators `ops` is taken:
\* assert the operand type (if any), the next operand, assert again, set
\* last_type (if any) and write the operator's opcode.
Asserted(c, asserted) == IF asserted = <<>> THEN c ELSE assert_type(c, asserted[1])
BinaryLevel(c, at, v, self, operand, ops, asserted, type) ==
    CASE at = 0 -> Do(c, <<Go(operand), Item(self, 1, <<>>)>>)
      [] at = 1 ->
           IF AtEnd(c) \/ peek(c).k \notin DOMAIN ops THEN c
           ELSE Then(Asserted(next(c), asserted), LAMBDA d :
                    Do(d, <<Go(operand), Item(self, 2, ops[peek(c).k])>>))
      [] at = 2 ->
           Then(Asserted(c, asserted), LAMBDA d :
               Do(Emit(IF type = <<>> THEN d ELSE [d EXCEPT !.last_type = type[1]], v),
                  <<Item(self, 1, <<>>)>>))

\* Compiler::or
or(c, at, v) ==
    BinaryLevel(c, at, v, "or", "and", "Or" :> OR, <<TBoolean>>, <<>>)

\* Compiler::and
and(c, at, v) ==
    BinaryLevel(c, at, v, "and", "equality", "And" :> AND, <<TBoolean>>, <<>>)

\* Compiler::equality: the operands are not asserted.
equality(c, at, v) ==
    BinaryLevel(c, at, v, "equality", "comparison",
                "BangEqual" :> NOT_EQUAL @@ "EqualEqual" :> EQUAL, <<>>, <<TBoolean>>)

\* Compiler::comparison
comparison(c, at, v) ==
    BinaryLevel(c, at, v, "comparison", "addition",
                "GreaterThan" :> GREATER_THAN @@ "GreaterThanEqual" :> GREATER_THAN_EQUAL
                    @@ "LessThan" :> LESS_THAN @@ "LessThanEqual" :> LESS_THAN_EQUAL,
                <<TNumber>>, <<TBoolean>>)

\* addition taking the four arithmetic operators between unary operands.
addition_flat(c, at, v) ==
    BinaryLevel(c, at, v, "addition", "unary",
                "Plus" :> ADD @@ "Minus" :> SUBTRACT @@ "Star" :> MULTIPLY
                    @@ "Slash" :> DIVIDE,
                <<TNumber>>, <<>>)


\* Compiler::addition
addition(c, at, v) ==
    BinaryLevel(c, at, v, "addition", "multiplication",
                "Plus" :> ADD @@ "Minus" :> SUBTRACT, <<TNumber>>, <<>>)

\* Compiler::multiplication
multiplication(c, at, v) ==
    BinaryLevel(c, at, v, "multiplication", "unary",
                "Star" :> MULTIPLY @@ "Slash" :> DIVIDE, <<TNumber>>, <<>>)

\* Compiler::unary
unary(c, at, v) ==
    CASE at = 0 ->
           IF has(c, "Bang") \/ has(c, "Minus")
           THEN Do(next(c), <<Go("get"), Item("unary", 1, peek(c).k)>>)
           ELSE Do(c, <<Go("get")>>)
      [] at = 1 ->
           IF v = "Bang"
           THEN Then(assert_type(c, TBoolean), LAMBDA d : Emit(d, NOT))
           ELSE Then(assert_type(c, TNumber), LAMBDA d : Emit(d, NEGATE))

\* Compiler::get
get(c, at, v) ==
    CASE at = 0 -> Do(c, <<Go("primary"), Item("get", 1, <<>>)>>)
      [] at = 1 ->
           IF ~has(c, "Dot") THEN c
           ELSE LET c1 == next(c)
                    obj_type == c1.last_type
                IN  CASE obj_type.t = "Array" ->
                           Do(c1, <<Go("primary"), Item("get", 2, obj_type)>>)
                      [] obj_type.t = "Block" ->
                           IF AtEnd(c1) THEN Fail(c1, "UnexpectedEOF", <<>>)
                           ELSE IF peek(c1).k # "Identifier"
                           THEN Fail(next(c1), "UnexpectedToken", <<peek(c1)>>)
                           ELSE LET name == peek(c1).s
                                    c2 == next(c1)
                                    found == {i \in 1..Len(obj_type.fields) :
                                                 obj_type.fields[i].name = name}
                                IN  IF found = {}
                                    THEN Fail(c2, "InvalidGetIdentifier", <<name>>)
                                    ELSE LET i == SetMin(found)
                                             t == obj_type.fields[i].type
                                             c3 == Emit(EmitConstant(c2, NumberV(i - 1)), INDEX)
                                             c4 == [c3 EXCEPT !.last_type = t]
                                         IN  IF t.t = "Function"
                                             THEN Do(c4, <<Go("execute_call"),
                                                           Item("get", 1, <<>>)>>)
                                             ELSE Do(c4, <<Item("get", 1, <<>>)>>)
                      [] obj_type.t = "Unknown" -> Do(c1, <<Item("get", 1, <<>>)>>)
                      [] OTHER -> Fail(c1, "InvalidGetTarget", <<obj_type>>)
      [] at = 2 ->
           Do([Emit(c, INDEX) EXCEPT !.last_type = v.elem], <<Item("get", 1, <<>>)>>)

\* Compiler::primary (for_ is todo!(): it panics)
primary(c) ==
    IF AtEnd(c) THEN Fail(c, "UnexpectedEOF", <<>>)
    ELSE LET t == peek(c)
             c1 == next(c)
         IN  CASE t.k = "LeftParen" -> Do(c1, <<Go("group")>>)
               [] t.k = "LeftBracket" -> Do(c1, <<Go("list")>>)
               [] t.k = "LeftBrace" -> Do(c1, <<Go("block")>>)
               [] t.k = "String" ->
                    [EmitConstant(c1, StringV(t.s)) EXCEPT !.last_type = TString]
               [] t.k = "Number" ->
                    [EmitConstant(c1, NumberV(t.n)) EXCEPT !.last_type = TNumber]
               [] t.k = "Boolean" ->
                    [EmitConstant(c1, BooleanV(t.n = 1)) EXCEPT !.last_type = TBoolean]
               [] t.k = "Identifier" -> Do(c1, <<Item("call", 0, t.s)>>)
               [] t.k = "BackSlash" ->
                    Do(c1, <<Item("function", 0, [name |-> "", params |-> <<>>])>>)
               [] t.k = "If" -> Do(c1, <<Item("if_", 0, [type_ |-> <<>>])>>)
               [] t.k = "For" -> Fail(c1, "Panic", <<>>)
               [] OTHER -> Fail(c1, "UnexpectedToken", <<t>>)

\* The patch step writing code.len() - at, the distance from the opcode.
PatchJumpFromOpcode(c, at) ==
    LET f == get_function(c)
        index_bytes == to_be_bytes(Len(f.chunk.code) - at)
    IN  SetFunction(c, [f EXCEPT !.chunk.code[at + 2] = index_bytes[1],
                                 !.chunk.code[at + 3] = index_bytes[2]])


\* The patch step of if_: the operand of the jump at offset `at` becomes
\* (code.len() - at) as u16 - 1.
PatchJump(c, at) ==
    LET f == get_function(c)
        index_bytes == to_be_bytes(Len(f.chunk.code) - at - 1)
    IN  SetFunction(c, [f EXCEPT !.chunk.code[at + 2] = index_bytes[1],
                                 !.chunk.code[at + 3] = index_bytes[2]])

\* if_ accepting whatever type a branch has.
AnyBranchType(c, type0) == c

\* The branch-type step of if_ after the then and the else expression:
\* type_ is None (<<>>) or Some(t) (<<t>>).
BranchType(c, type0) ==
    IF type0 = <<>> THEN c
    ELSE assert_type_with_error(c, type0[1], "BranchTypeMismatch",
                                <<type0[1], c.last_type>>)

\* Compiler::if_
if_(c, at, v) ==
    CASE at = 0 -> Do(c, <<Expr(TRUE), Item("if_", 1, v)>>)
      [] at = 1 ->
           Do(EmitPair(c, JUMP_IF_FALSE, 0),
              <<Expr(TRUE),
                Item("if_", 2, [type_ |-> v.type_, then_jump |-> CodeLen(c)])>>)
      [] at = 2 ->
           Then(BranchType(c, v.type_), LAMBDA c3 :
               LET type1 == IF v.type_ = <<>> THEN <<c.last_type>> ELSE v.type_
                   else_jump == CodeLen(c3)
                   c4 == PatchJump(EmitPair(c3, JUMP, 0), v.then_jump)
               IN  IF has(c4, "Else")
                   THEN Do(next(c4),
                           <<Expr(TRUE),
                             Item("if_", 3, [type_ |-> type1, else_jump |-> else_jump])>>)
                   ELSE PatchJump(c4, else_jump))
      [] at = 3 ->
           Then(BranchType(c, v.type_), LAMBDA d : PatchJump(d, v.else_jump))

\* Compiler::resolve_local: <<>> when it returns false, else the new state.
resolve_local(c, name) ==
    LET found == resolve(get_function(c), name)
    IN  IF found = <<>> THEN <<>>
        ELSE << [EmitPair(c, GET_LOCAL, found[1].index)
                    EXCEPT !.last_type = found[1].type,
                           !.unresolved_types = Append(@, name)] >>

\* The loop of resolve_upvalue that adds the upvalue to the functions
\* j..last between the one that owns the local and the current one.
RECURSIVE ChainUpvalues(_, _, _, _, _)
ChainUpvalues(functions, j, last, index, is_local) ==
    IF j > last THEN functions
    ELSE ChainUpvalues(
             [functions EXCEPT ![j] = add_upvalue(@, index, is_local)],
             j + 1, last, add_upvalue_index(functions[j], index, is_local), FALSE)

\* Compiler::resolve_upvalue: <<>> when it returns false, else the new state.
\* Functions are numbered from 1 here, so the current one is n and the
\* enclosing ones are 1..n-1, searched from the innermost.
resolve_upvalue(c, name) ==
    LET n == Len(c.functions)
        owners == {i \in 1..(n - 1) : resolve(c.functions[i], name) # <<>>}
    IN  IF owners = {} THEN <<>>
        ELSE LET i == SetMax(owners)
                 local == resolve(c.functions[i], name)[1]
                 is_local == i >= n - 1
                 upvalue_index == add_upvalue_index(get_function(c), local.index, is_local)
                 c1 == SetFunction(c, add_upvalue(get_function(c), local.index, is_local))
                 c2 == EmitPair([c1 EXCEPT !.last_type = local.type],
                                GET_UPVALUE, upvalue_index)
             IN  << [c2 EXCEPT !.functions =
                         ChainUpvalues(@, i + 1, n - 1, local.index, TRUE)] >>

\* Compiler::resolve_global
resolve_global(c, name) ==
    LET found == {i \in 1..Len(c.globals) : c.globals[i].name = name}
    IN  IF found = {} THEN <<>>
        ELSE LET i == SetMin(found)
             IN  << [EmitPair(c, GET_GLOBAL, i - 1)
                        EXCEPT !.last_type = c.globals[i].type] >>

\* call looking among the built-ins first.
call_global_first(c, name) ==
    LET resolved == IF resolve_global(c, name) # <<>> THEN resolve_global(c, name)
                    ELSE IF resolve_local(c, name) # <<>> THEN resolve_local(c, name)
                    ELSE resolve_upvalue(c, name)
    IN  IF resolved # <<>> THEN Do(resolved[1], <<Go("execute_call")>>)
        ELSE IF get_function(c).name = name THEN Fail(c, "RecursiveCall", <<name>>)
        ELSE Do(c, <<Item("assignment", 0, name)>>)

\* call taking the name of the current function for a new binding.
call_unguarded(c, name) ==
    LET resolved == IF resolve_local(c, name) # <<>> THEN resolve_local(c, name)
                    ELSE IF resolve_upvalue(c, name) # <<>> THEN resolve_upvalue(c, name)
                    ELSE resolve_global(c, name)
    IN  IF resolved # <<>> THEN Do(resolved[1], <<Go("execute_call")>>)
        ELSE Do(c, <<Item("assignment", 0, name)>>)

\* Compiler::call
call(c, name) ==
    LET resolved == IF resolve_local(c, name) # <<>> THEN resolve_local(c, name)
                    ELSE IF resolve_upvalue(c, name) # <<>> THEN resolve_upvalue(c, name)
                    ELSE resolve_global(c, name)
    IN  IF resolved # <<>> THEN Do(resolved[1], <<Go("execute_call")>>)
        ELSE IF get_function(c).name = name THEN Fail(c, "RecursiveCall", <<name>>)
        ELSE Do(c, <<Item("assignment", 0, name)>>)

\* Compiler::execute_call: v is the parameter types, the return type and
\* the position i of the loop over the parameters.
execute_call(c, at, v) ==
    CASE at = 0 ->
           IF c.last_type.t # "Function" THEN c
           ELSE IF has(c, "Newline") \/ has(c, "RightParen") \/ AtEnd(c) THEN c
           ELSE Do(c, <<Item("execute_call", 1,
                             [params |-> c.last_type.params,
                              return_type |-> c.last_type.ret, i |-> 1])>>)
      [] at = 1 ->
           IF v.i > Len(v.params)
           THEN [EmitPair(c, CALL, Len(v.params)) EXCEPT !.last_type = v.return_type]
           ELSE Do(c, <<Expr(TRUE), Item("execute_call", 2, v)>>)
      [] at = 2 ->
           IF ~satisfies(c.last_type, v.params[v.i])
           THEN Fail(c, "ArgumentTypeMismatch", <<v.params[v.i], c.last_type>>)
           ELSE Do(c, <<Item("execute_call", 1, [v EXCEPT !.i = @ + 1])>>)

PrimitiveType(s) ==
    CASE s = "string" -> <<TString>>
      [] s = "number" -> <<TNumber>>
      [] s = "boolean" -> <<TBoolean>>
      [] s = "nil" -> <<TNil>>
      [] s = "any" -> <<TAny>>
      [] OTHER -> <<>>

\* Compiler::type_: the Type it returns is left in c.ty.  In the member
\* loop of a block type, at the end of the tokens has(RightBrace) stays
\* false and next() returns None: the loop goes round for ever.
type_(c0, at, v) ==
    CASE at = 0 ->
           LET c == ignore_whitespace(c0)
           IN  IF AtEnd(c) THEN Fail(c, "UnexpectedEOF", <<>>)
           ELSE LET t == peek(c)
                    c1 == next(c)
                IN  CASE t.k = "Identifier" ->
                           IF PrimitiveType(t.s) = <<>>
                           THEN Fail(c1, "InvalidTypeAnnotation", <<t.s>>)
                           ELSE [c1 EXCEPT !.ty = PrimitiveType(t.s)[1]]
                      [] t.k = "BackSlash" ->
                           Do(ignore_whitespace(c1), <<Item("type_", 1, <<>>)>>)
                      [] t.k = "LeftParen" ->
                           Do(ignore_whitespace(c1), <<Go("type_"), Item("type_", 4, <<>>)>>)
                      [] t.k = "LeftBrace" ->
                           Do(c1, <<Item("type_", 5, [members |-> <<>>])>>)
                      [] t.k = "LeftBracket" ->
                           Do(ignore_whitespace(c1), <<Go("type_"), Item("type_", 9, <<>>)>>)
                      [] OTHER -> Fail(c1, "UnexpectedToken", <<t>>)
      \* function type: `while !self.has(Equals) { params.push(self.type_()?) }`
      [] at = 1 ->
           IF has(c0, "Equals")
           THEN Do(next(c0), <<Go("type_"), Item("type_", 3, v)>>)
           ELSE Do(c0, <<Go("type_"), Item("type_", 2, v)>>)
      [] at = 2 -> Do(c0, <<Item("type_", 1, Append(v, c0.ty))>>)
      [] at = 3 -> [c0 EXCEPT !.ty = TFunction(v, c0.ty)]
      \* group
      [] at = 4 ->
           LET c == ignore_whitespace(c0)
           IN  IF ~has(c, "RightParen")
               THEN Fail(c, "InvalidTypeAnnotation", <<"Group">>)
               ELSE next(c)
      \* block type: `while !self.has(RightBrace)`
      [] at = 5 ->
           IF has(c0, "RightBrace") THEN [next(c0) EXCEPT !.ty = TBlock(v.members)]
           ELSE LET c == ignore_whitespace(c0)
                IN  IF AtEnd(c) THEN Do(c, <<Item("type_", 5, v)>>)
                    ELSE IF peek(c).k # "Identifier"
                    THEN Fail(next(c), "InvalidTypeAnnotation", <<"Block">>)
                    ELSE Do(ignore_whitespace(next(c)),
                            <<Item("type_", 6, [members |-> v.members,
                                                name |-> peek(c).s,
                                                params |-> <<>>])>>)
      [] at = 6 ->
           IF has(c0, "Equals")
           THEN Do(next(c0), <<Go("type_"), Item("type_", 8, v)>>)
           ELSE Do(c0, <<Go("type_"), Item("type_", 7, v)>>)
      [] at = 7 -> Do(c0, <<Item("type_", 6, [v EXCEPT !.params = Append(@, c0.ty)])>>)
      [] at = 8 ->
           Do(ignore_whitespace(c0),
              <<Item("type_", 5,
                     [members |->
                         Append(v.members,
                                [name |-> v.name,
                                 type |-> IF Len(v.params) > 0
                                          THEN TFunction(v.params, c0.ty)
                                          ELSE c0.ty])])>>)
      \* array type
      [] at = 9 ->
           LET c == ignore_whitespace(c0)
           IN  IF ~has(c, "RightBracket")
               THEN Fail(c, "InvalidTypeAnnotation", <<"Array">>)
               ELSE [next(c) EXCEPT !.ty = TArray(c.ty)]

\* `for (name, type_) in params.iter().rev()`: add_local and PUSH_LOCAL
RECURSIVE AddParams(_, _)
AddParams(f, params) ==
    IF params = <<>> THEN f
    ELSE LET p == params[Len(params)]
             f1 == add_local(f, p.name, p.type)
         IN  AddParams([f1 EXCEPT !.chunk = ChunkWrite(@, PUSH_LOCAL)],
                       SubSeq(params, 1, Len(params) - 1))

\* function() reporting no parameter types.
NoParamTypes(f, params) == <<>>

\* The parameter types function() reports: the type of the local each
\* parameter name resolves to, Any for Unknown.
RECURSIVE ParamTypes(_, _)
ParamTypes(f, params) ==
    IF params = <<>> THEN <<>>
    ELSE LET found == resolve(f, Head(params).name)
             rest == ParamTypes(f, Tail(params))
         IN  IF found = <<>> THEN rest
             ELSE IF found[1].type = TUnknown THEN <<TAny>> \o rest
             ELSE <<found[1].type>> \o rest

\* Compiler::function: v is the name and the (name, type) pairs collected.
function(c, at, v) ==
    CASE at = 0 ->
           \* `while let Some(t) = self.next()`
           IF AtEnd(c) THEN Fail(c, "UnexpectedEOF", <<>>)
           ELSE LET t == peek(c)
                    c1 == next(c)
                IN  CASE t.k = "Equals" ->
                           LET f0 == AddParams(begin_scope(NewFunction(v.name)), v.params)
                           IN  Do([c1 EXCEPT !.functions = Append(@, f0)],
                                  <<Expr(TRUE), Item("function", 2, v)>>)
                      [] t.k = "Identifier" ->
                           IF has(c1, "Colon")
                           THEN Do(next(c1), <<Go("type_"),
                                               Item("function", 1,
                                                    [name |-> v.name, params |-> v.params,
                                                     param |-> t.s])>>)
                           ELSE Do(c1, <<Item("function", 0,
                                              [v EXCEPT !.params =
                                                  Append(@, [name |-> t.s,
                                                             type |-> TUnknown])])>>)
                      [] OTHER -> Fail(next(c1), "UnexpectedEOF", <<>>)
      [] at = 1 ->
           Do(c, <<Item("function", 0,
                        [name |-> v.name,
                         params |-> Append(v.params, [name |-> v.param, type |-> c.ty])])>>)
      [] at = 2 ->
           LET return_type == c.last_type
               param_types == ParamTypes(get_function(c), v.params)
               func == end_scope(get_function(c))
               c2 == [c EXCEPT !.functions = SubSeq(@, 1, Len(@) - 1)]
               c3 == EmitConstant(c2, FunctionV(func))
               c4 == IF Len(func.upvalues) > 0 THEN Emit(c3, MAKE_CLOSURE) ELSE c3
           IN  [c4 EXCEPT !.last_type = TFunction(param_types, return_type)]

\* The tail of both arms of assignment: PUSH_LOCAL, add_local, Nil.
BindLocal(c, name) ==
    LET t == c.last_type
        c1 == Emit(c, PUSH_LOCAL)
    IN  [SetFunction(c1, add_local(get_function(c1), name, t))
            EXCEPT !.last_type = TNil]

\* Compiler::assignment
assignment(c, at, name) ==
    CASE at = 0 ->
           IF has(c, "Equals")
           THEN Do(BeginScope(next(c)), <<Expr(TRUE), Item("assignment", 1, name)>>)
           ELSE Do(c, <<Item("function", 0, [name |-> name, params |-> <<>>]),
                        Item("assignment", 2, name)>>)
      [] at = 1 ->
           LET c2 == EndScope(c)
               c3 == IF c2.last_type = TNil
                     THEN EmitConstant(c2, StringV("")) ELSE c2
           IN  BindLocal(c3, name)
      [] at = 2 -> BindLocal(c, name)

\* Compiler::group: n counts the expressions that are not Nil.
group(c, at, n) ==
    CASE at = 0 -> Do(ignore_whitespace(BeginScope(c)), <<Item("group", 1, 0)>>)
      [] at = 1 ->
           IF ~has(c, "RightParen")
           THEN Do(ignore_whitespace(c), <<Expr(TRUE), Item("group", 2, n)>>)
           ELSE LET c1 == next(c)
                    c2 == IF n = 0
                          THEN [EmitConstant(c1, StringV("")) EXCEPT !.last_type = TNil]
                          ELSE IF n > 1
                          THEN [EmitPair(c1, CONCATENATE, n) EXCEPT !.last_type = TString]
                          ELSE c1
                IN  EndScope(c2)
      [] at = 2 ->
           Do(ignore_whitespace(c),
              <<Item("group", 1, IF c.last_type # TNil THEN n + 1 ELSE n)>>)

\* Compiler::list: v is count and item_type.
list(c, at, v) ==
    CASE at = 0 ->
           Do(ignore_whitespace(BeginScope(c)),
              <<Item("list", 1, [count |-> 0, item_type |-> TNil])>>)
      [] at = 1 ->
           IF ~has(c, "RightBracket")
           THEN Do(ignore_whitespace(c), <<Expr(TRUE), Item("list", 2, v)>>)
           ELSE EndScope([EmitPair(next(c), MAKE_ARRAY, v.count)
                             EXCEPT !.last_type = TArray(v.item_type)])
      [] at = 2 ->
           LET c2 == ignore_whitespace(c)
           IN  IF c2.last_type = TNil THEN Do(c2, <<Item("list", 1, v)>>)
               ELSE IF v.item_type = TNil
               THEN Do(c2, <<Item("list", 1, [count |-> v.count + 1,
                                              item_type |-> c2.last_type])>>)
               ELSE Then(assert_type_with_error(c2, v.item_type, "ListItemTypeMismatch",
                                                <<v.item_type, c2.last_type>>),
                         LAMBDA d : Do(d, <<Item("list", 1, [v EXCEPT !.count = @ + 1])>>))

\* Compiler::block
block(c, at) ==
    CASE at = 0 -> Do(ignore_whitespace(BeginScope(c)), <<Item("block", 1, <<>>)>>)
      [] at = 1 ->
           IF ~has(c, "RightBrace")
           THEN Do(ignore_whitespace(c), <<Expr(FALSE), Item("block", 2, <<>>)>>)
           ELSE LET c1 == next(c)
                    f == get_function(c1)
                    own == SelectSeq(f.locals, LAMBDA l : l.depth = f.depth)
                    fields == [i \in 1..Len(own) |->
                                  [name |-> own[i].name, type |-> own[i].type]]
                    gets == [i \in 1..(3 * Len(own)) |->
                               LET l == own[(i + 2) \div 3]
                               IN  CASE i % 3 = 1 -> GET_LOCAL
                                     [] i % 3 = 2 -> to_be_bytes(l.index)[1]
                                     [] OTHER -> to_be_bytes(l.index)[2]]
                    c2 == SetFunction(c1, [f EXCEPT !.chunk.code = @ \o gets])
                IN  EndScope([EmitPair(c2, MAKE_BLOCK, Len(own))
                                 EXCEPT !.last_type = TBlock(fields)])
      [] at = 2 -> Do(ignore_whitespace(c), <<Item("block", 1, <<>>)>>)

\* Compiler::compile: `while self.peek().is_some()`; every pass ends a
\* top-level expression, whose end offset is recorded in c.marks.
compile_loop(c, at) ==
    CASE at = 0 ->
           IF AtEnd(c) THEN c
           ELSE Do(ignore_whitespace(c), <<Expr(FALSE), Item("compile", 1, <<>>)>>)
      [] at = 1 ->
           Do([ignore_whitespace(c) EXCEPT !.marks = @ \cup {CodeLen(c)}],
              <<Item("compile", 0, <<>>)>>)

\* The routine on top of the call stack runs to its next call or return.
step(c) ==
    LET item == Head(c.todo)
        at == item.at
        v == item.v
        d == [c EXCEPT !.todo = Tail(@)]
    IN  CASE item.fn = "compile" -> compile_loop(d, at)
          [] item.fn = "expression" -> expression(d, at, v)
          [] item.fn = "or" -> or(d, at, v)
          [] item.fn = "and" -> and(d, at, v)
          [] item.fn = "equality" -> equality(d, at, v)
          [] item.fn = "comparison" -> comparison(d, at, v)
          [] item.fn = "addition" -> addition(d, at, v)
          [] item.fn = "multiplication" -> multiplication(d, at, v)
          [] item.fn = "unary" -> unary(d, at, v)
          [] item.fn = "get" -> get(d, at, v)
          [] item.fn = "primary" -> primary(d)
          [] item.fn = "if_" -> if_(d, at, v)
          [] item.fn = "call" -> call(d, v)
          [] item.fn = "execute_call" -> execute_call(d, at, v)
          [] item.fn = "type_" -> type_(d, at, v)
          [] item.fn = "function" -> function(d, at, v)
          [] item.fn = "assignment" -> assignment(d, at, v)
          [] item.fn = "group" -> group(d, at, v)
          [] item.fn = "list" -> list(d, at, v)
          [] item.fn = "block" -> block(d, at)

\* The compilation has returned: with an Err, or from Compiler::compile.
Returned(c) == Failed(c) \/ c.todo = <<>>

\* compile: the Compiler constructed on the source, at the call of
\* Compiler::compile, which pushes the script function.
compile(source) ==
    [NewCompiler(source) EXCEPT !.functions = <<NewFunction("")>>,
                                !.todo = <<Go("compile")>>]

(***************************************************************************)
(* vm.rs: the VM.  A machine state vm is the VM struct (stack, locals)     *)
(* with the activations of run, Map::call and Loop::call that the Rust     *)
(* call stack holds, the output, and how the run ended: phase "error" is   *)
(* an Err returned through every `?`, "panic" a panic of the thread.       *)
(***************************************************************************)
Top(vm) == vm.frames[Len(vm.frames)]
SetIp(vm, ip) == [vm EXCEPT !.frames[Len(vm.frames)].ip = ip]
Abort(vm, kind) ==
    [vm EXCEPT !.phase = "error", !.error = [kind |-> kind, args |-> <<>>]]
\* Err(Error::IndexOutOfBounds(n, len))
IndexOutOfBounds(vm, n, len) ==
    [vm EXCEPT !.phase = "error",
               !.error = [kind |-> "IndexOutOfBounds", args |-> <<n, len>>]]
Panic(vm) == [vm EXCEPT !.phase = "panic"]

\* VM::push
Push(vm, value) == [vm EXCEPT !.stack = Append(@, value)]
\* VM::pop, where the stack is not empty
Peek(vm) == vm.stack[Len(vm.stack)]
Drop(vm) == [vm EXCEPT !.stack = SubSeq(@, 1, Len(@) - 1)]

\* The activation run(function, upvalues) starts with: base = locals.len().
RunFrame(vm, f, upvalues) ==
    [kind |-> "run", function |-> f, upvalues |-> upvalues,
     base |-> Len(vm.locals), ip |-> 0]
Enter(vm, f, upvalues) ==
    [vm EXCEPT !.frames = Append(@, RunFrame(vm, f, upvalues))]

\* i32 arithmetic.  a + b, a - b, a * b and -a overflow when the result
\* is outside MinI32..MaxI32; the wrapping_ operators give the result
\* modulo 2^32 that a build without overflow checks computes.
MaxI32 == 2147483647
MinI32 == -MaxI32 - 1
add_overflows(a, b) == (b > 0 /\ a > MaxI32 - b) \/ (b < 0 /\ a < MinI32 - b)
wrapping_add(a, b) ==
    IF b > 0 /\ a > MaxI32 - b THEN ((a - MaxI32) - 1) + ((b - MaxI32) - 1)
    ELSE IF b < 0 /\ a < MinI32 - b THEN ((a + MaxI32) + 1) + ((b + MaxI32) + 1)
    ELSE a + b
wrapping_neg(a) == IF a = MinI32 THEN MinI32 ELSE -a
sub_overflows(a, b) == (b < 0 /\ a > MaxI32 + b) \/ (b > 0 /\ a < MinI32 + b)
wrapping_sub(a, b) == wrapping_add(a, wrapping_neg(b))
RECURSIVE wrapping_mul(_, _)
wrapping_mul(a, b) ==
    IF b = 0 THEN 0
    ELSE IF b = MinI32 THEN (IF a % 2 = 1 THEN MinI32 ELSE 0)
    ELSE IF b < 0 THEN wrapping_neg(wrapping_mul(a, -b))
    ELSE LET h == wrapping_mul(wrapping_add(a, a), b \div 2)
         IN  IF b % 2 = 1 THEN wrapping_add(h, a) ELSE h
\* Rust's / on i32 rounds toward zero; b # 0 and not MinI32 / -1
RECURSIVE TruncDiv(_, _)
TruncDiv(a, b) ==
    IF b = MinI32 THEN (IF a = MinI32 THEN 1 ELSE 0)
    ELSE IF b < 0 THEN -TruncDiv(a, -b)
    ELSE IF a >= 0 THEN a \div b
    ELSE (a \div b) + (IF a % b # 0 THEN 1 ELSE 0)
mul_overflows(a, b) ==
    IF a = 0 THEN FALSE
    ELSE IF a = -1 THEN b = MinI32
    ELSE TruncDiv(wrapping_mul(a, b), a) # b

\* An arithmetic overflow: the build decides between a panic and the
\* wrapped value.
Overflowed(vm, wrapped, checks) ==
    IF checks THEN Panic(vm) ELSE Push(vm, NumberV(wrapped))

\* POP
op_POP(vm) == IF vm.stack = <<>> THEN Abort(vm, "ValueStackUnderflow") ELSE Drop(vm)

\* PUSH
op_PUSH(vm, i) ==
    LET constants == Top(vm).function.chunk.constants
    IN  IF i >= Len(constants) THEN Panic(vm) ELSE Push(vm, constants[i + 1])

\* GET_LOCAL
op_GET_LOCAL(vm, i) ==
    IF Top(vm).base + i >= Len(vm.locals) THEN Panic(vm)
    ELSE Push(vm, vm.locals[Top(vm).base + i + 1])

\* GET_UPVALUE
op_GET_UPVALUE(vm, i) ==
    IF i >= Len(Top(vm).upvalues) THEN Panic(vm)
    ELSE Push(vm, Top(vm).upvalues[i + 1])

\* PUSH_LOCAL
op_PUSH_LOCAL(vm) ==
    IF vm.stack = <<>> THEN Abort(vm, "ValueStackUnderflow")
    ELSE [Drop(vm) EXCEPT !.locals = Append(@, Peek(vm))]

\* POP_LOCAL: Vec::pop of an empty vector is None, and is ignored.
op_POP_LOCAL(vm) ==
    [vm EXCEPT !.locals = IF @ = <<>> THEN @ ELSE SubSeq(@, 1, Len(@) - 1)]

\* GET_GLOBAL
op_GET_GLOBAL(vm, i) ==
    IF i >= Len(get_functions) THEN Panic(vm) ELSE Push(vm, BuiltInV(i))

\* MAKE_ARRAY and MAKE_BLOCK: stack.drain(len - n..)
op_MAKE(vm, n, Make(_)) ==
    IF n > Len(vm.stack) THEN Panic(vm)
    ELSE LET k == Len(vm.stack) - n
         IN  [vm EXCEPT !.stack = Append(SubSeq(@, 1, k), Make(SubSeq(@, k + 1, Len(@))))]

\* CONCATENATE
op_CONCATENATE(vm, n) == op_MAKE(vm, n, LAMBDA values : StringV(DisplayAll(values)))

\* INDEX that checks only the upper bound of an array index.
op_INDEX_unsigned(vm) ==
    LET i == vm.stack[Len(vm.stack)]
        target == vm.stack[Len(vm.stack) - 1]
        vm1 == Drop(Drop(vm))
    IN  IF ~(IsObject(target) /\ i.v = "Number") THEN Abort(vm1, "RuntimeError")
        ELSE IF i.n >= Len(target.items)
        THEN IndexOutOfBounds(vm1, i.n, Len(target.items))
        ELSE IF i.n < 0 THEN Panic(vm1)
        ELSE Push(vm1, target.items[i.n + 1])


\* INDEX
op_INDEX(vm) ==
    IF Len(vm.stack) < 2 THEN Abort([vm EXCEPT !.stack = <<>>], "ValueStackUnderflow")
    ELSE LET i == vm.stack[Len(vm.stack)]
             target == vm.stack[Len(vm.stack) - 1]
             vm1 == Drop(Drop(vm))
         IN  IF ~(IsObject(target) /\ i.v = "Number") THEN Abort(vm1, "RuntimeError")
             ELSE CASE target.v = "Array" ->
                         IF i.n < 0 \/ i.n >= Len(target.items)
                         THEN IndexOutOfBounds(vm1, i.n, Len(target.items))
                         ELSE Push(vm1, target.items[i.n + 1])
                    [] target.v = "Block" ->
                         IF i.n < 0 \/ i.n >= Len(target.items) THEN Panic(vm1)
                         ELSE Push(vm1, target.items[i.n + 1])
                    [] OTHER -> Abort(vm1, "RuntimeError")

\* MAKE_CLOSURE reading every upvalue from the locals stack.
CaptureFromLocals(upvalue, vmlocals, base, upvalues) ==
    IF base + upvalue.index >= Len(vmlocals) THEN <<>>
    ELSE <<vmlocals[base + upvalue.index + 1]>>

\* The upvalue vector MAKE_CLOSURE resolves for function f in the frame
\* with the given base and upvalues: <<>> stands for an index out of range.
CaptureUpvalue(upvalue, vmlocals, base, upvalues) ==
    IF upvalue.is_local
    THEN IF base + upvalue.index >= Len(vmlocals) THEN <<>>
         ELSE <<vmlocals[base + upvalue.index + 1]>>
    ELSE IF upvalue.index >= Len(upvalues) THEN <<>>
         ELSE <<upvalues[upvalue.index + 1]>>

\* MAKE_CLOSURE
op_MAKE_CLOSURE(vm) ==
    IF vm.stack = <<>> THEN Abort(vm, "ValueStackUnderflow")
    ELSE LET func == Peek(vm)
             vm1 == Drop(vm)
         IN  IF func.v # "Function" THEN Abort(vm1, "RuntimeError")
             ELSE LET f == func.function
                      captured == [j \in 1..Len(f.upvalues) |->
                                      CaptureUpvalue(f.upvalues[j], vm.locals,
                                                     Top(vm).base, Top(vm).upvalues)]
                  IN  IF \E j \in 1..Len(captured) : captured[j] = <<>>
                      THEN Panic(vm1)
                      ELSE Push(vm1, ClosureV(f, [j \in 1..Len(captured) |->
                                                     captured[j][1]]))

\* The shape of every binary instruction: pop b, pop a, then Apply(a, b),
\* which yields the machine after the push or after the error.
op_Binary(vm, Apply(_, _, _)) ==
    IF Len(vm.stack) < 2 THEN Abort([vm EXCEPT !.stack = <<>>], "ValueStackUnderflow")
    ELSE Apply(Drop(Drop(vm)), vm.stack[Len(vm.stack) - 1], vm.stack[Len(vm.stack)])

\* OR, AND
op_Logic(vm, op) ==
    op_Binary(vm, LAMBDA vm1, a, b :
        IF a.v = "Boolean" /\ b.v = "Boolean"
        THEN Push(vm1, BooleanV(IF op = OR THEN a.b \/ b.b ELSE a.b /\ b.b))
        ELSE Abort(vm1, "RuntimeError"))

\* ADD, SUBTRACT, MULTIPLY, DIVIDE
op_Arithmetic(vm, op, checks) ==
    op_Binary(vm, LAMBDA vm1, a, b :
        IF ~(a.v = "Number" /\ b.v = "Number") THEN Abort(vm1, "RuntimeError")
        ELSE CASE op = ADD ->
                    IF add_overflows(a.n, b.n)
                    THEN Overflowed(vm1, wrapping_add(a.n, b.n), checks)
                    ELSE Push(vm1, NumberV(a.n + b.n))
               [] op = SUBTRACT ->
                    IF sub_overflows(a.n, b.n)
                    THEN Overflowed(vm1, wrapping_sub(a.n, b.n), checks)
                    ELSE Push(vm1, NumberV(a.n - b.n))
               [] op = MULTIPLY ->
                    IF mul_overflows(a.n, b.n)
                    THEN Overflowed(vm1, wrapping_mul(a.n, b.n), checks)
                    ELSE Push(vm1, NumberV(a.n * b.n))
               [] op = DIVIDE ->
                    IF b.n = 0 THEN Abort(vm1, "RuntimeError")
                    ELSE IF a.n = MinI32 /\ b.n = -1 THEN Panic(vm1)
                    ELSE Push(vm1, NumberV(TruncDiv(a.n, b.n))))

\* EQUAL, NOT_EQUAL: two objects meet todo!()
op_Equality(vm, op) ==
    op_Binary(vm, LAMBDA vm1, a, b :
        IF a.v = "Number" /\ b.v = "Number"
        THEN Push(vm1, BooleanV((a.n = b.n) = (op = EQUAL)))
        ELSE IF a.v = "Boolean" /\ b.v = "Boolean"
        THEN Push(vm1, BooleanV((a.b = b.b) = (op = EQUAL)))
        ELSE IF IsObject(a) /\ IsObject(b) THEN Panic(vm1)
        ELSE Push(vm1, BooleanV(op = NOT_EQUAL)))

\* GREATER_THAN, GREATER_THAN_EQUAL, LESS_THAN, LESS_THAN_EQUAL
op_Comparison(vm, op) ==
    op_Binary(vm, LAMBDA vm1, a, b :
        IF ~(a.v = "Number" /\ b.v = "Number") THEN Abort(vm1, "RuntimeError")
        ELSE Push(vm1, BooleanV(CASE op = GREATER_THAN -> a.n > b.n
                                  [] op = GREATER_THAN_EQUAL -> a.n >= b.n
                                  [] op = LESS_THAN -> a.n < b.n
                                  [] op = LESS_THAN_EQUAL -> a.n <= b.n)))

\* NEGATE
op_NEGATE(vm, checks) ==
    IF vm.stack = <<>> THEN Abort(vm, "ValueStackUnderflow")
    ELSE IF Peek(vm).v # "Number" THEN Abort(Drop(vm), "RuntimeError")
    ELSE IF Peek(vm).n = MinI32 THEN Overflowed(Drop(vm), MinI32, checks)
    ELSE Push(Drop(vm), NumberV(-Peek(vm).n))

\* NOT
op_NOT(vm) ==
    IF vm.stack = <<>> THEN Abort(vm, "ValueStackUnderflow")
    ELSE IF Peek(vm).v # "Boolean" THEN Abort(Drop(vm), "RuntimeError")
    ELSE Push(Drop(vm), BooleanV(~Peek(vm).b))

\* `read_u16(&mut ip) - 2` on u16: <<>> when the build panics on the
\* overflow, else the offset.
JumpOffset(operand, checks) ==
    IF operand >= 2 THEN <<operand - 2>>
    ELSE IF checks THEN <<>>
    ELSE <<operand - 2 + U16>>

\* JUMP that reads its operand and does not move ip.
op_JUMP_stay(vm, operand, checks) == vm

\* JUMP
op_JUMP(vm, operand, checks) ==
    IF JumpOffset(operand, checks) = <<>> THEN Panic(vm)
    ELSE SetIp(vm, Top(vm).ip + JumpOffset(operand, checks)[1])

\* JUMP_IF_FALSE
op_JUMP_IF_FALSE(vm, operand, checks) ==
    IF JumpOffset(operand, checks) = <<>> THEN Panic(vm)
    ELSE IF vm.stack = <<>> THEN Abort(vm, "ValueStackUnderflow")
    ELSE IF Peek(vm) = BooleanV(FALSE)
    THEN SetIp(Drop(vm), Top(vm).ip + JumpOffset(operand, checks)[1])
    ELSE Drop(vm)

(***************************************************************************)
(* standard/: the built-ins' call.                                         *)
(***************************************************************************)
\* Print::call that reads the top of the stack without popping it.
print_call_peek(vm, newline) ==
    [vm EXCEPT !.out =
        Append(@, IF newline THEN Display(Peek(vm)) \o "\n" ELSE Display(Peek(vm)))]


\* Print::call and Println::call
print_call(vm, newline) ==
    IF vm.stack = <<>> THEN Abort(vm, "ValueStackUnderflow")
    ELSE [Drop(vm) EXCEPT !.out =
             Append(@, IF newline THEN Display(Peek(vm)) \o "\n" ELSE Display(Peek(vm)))]

\* Write::call, the file system accepting the write
write_call(vm) ==
    IF Len(vm.stack) < 2 THEN Abort([vm EXCEPT !.stack = <<>>], "ValueStackUnderflow")
    ELSE LET value == vm.stack[Len(vm.stack)]
             path == vm.stack[Len(vm.stack) - 1]
             vm1 == Drop(Drop(vm))
         IN  IF path.v = "String" /\ value.v = "String"
             THEN [vm1 EXCEPT !.files = {w \in @ : w.path # path.s}
                                           \cup {[path |-> path.s, content |-> value.s]}]
             ELSE Abort(vm1, "RuntimeError")

\* Length::call
length_call(vm) ==
    IF vm.stack = <<>> THEN Abort(vm, "ValueStackUnderflow")
    ELSE CASE Peek(vm).v = "Array" -> Push(Drop(vm), NumberV(Len(Peek(vm).items)))
           [] Peek(vm).v = "String" -> Push(Drop(vm), NumberV(Len(Peek(vm).s)))
           [] OTHER -> Abort(Drop(vm), "RuntimeError")

\* Map::call and Loop::call up to their loop: the activation holds the
\* list, the callback, the index i of the next element and, for map,
\* new_list; waiting is TRUE while the callback's run is active.
iterate_call(vm, kind) ==
    IF Len(vm.stack) < 2 THEN Abort([vm EXCEPT !.stack = <<>>], "ValueStackUnderflow")
    ELSE LET callback == vm.stack[Len(vm.stack)]
             array == vm.stack[Len(vm.stack) - 1]
             vm1 == Drop(Drop(vm))
         IN  IF array.v = "Array" /\ callback.v \in {"Function", "Closure"}
             THEN [vm1 EXCEPT !.frames =
                      Append(@, [kind |-> kind, list |-> array.items,
                                 callee |-> callback, i |-> 0, new_list |-> <<>>,
                                 waiting |-> FALSE])]
             ELSE Abort(vm1, "RuntimeError")

\* BuiltIn::call of registry entry i
builtin_call(vm, i) ==
    CASE i = 0 -> print_call(vm, FALSE)
      [] i = 1 -> print_call(vm, TRUE)
      [] i = 2 -> write_call(vm)
      [] i = 3 -> iterate_call(vm, "map")
      [] i = 4 -> iterate_call(vm, "loop")
      [] i = 5 -> length_call(vm)

\* Callable::call of a Function or a Closure value: run on its chunk
callee_upvalues(callee) == IF callee.v = "Closure" THEN callee.upvalues ELSE <<>>

\* CALL
op_CALL(vm, arity) ==
    IF Len(vm.stack) < arity + 1 THEN Panic(vm)
    ELSE LET at == Len(vm.stack) - arity
             func == vm.stack[at]
             vm1 == [vm EXCEPT !.stack = SubSeq(@, 1, at - 1) \o SubSeq(@, at + 1, Len(@))]
         IN  CASE func.v = "BuiltIn" -> builtin_call(vm1, func.index)
               [] func.v \in {"Closure", "Function"} ->
                    Enter(vm1, func.function, callee_upvalues(func))
               [] OTHER -> Abort(vm1, "RuntimeError")

\* One pass of the loop of VM::run: fetch the opcode at ip, read its
\* operand, execute.  checks is the build's overflow_checks.
run_step(vm, checks) ==
    LET code == Top(vm).function.chunk.code
        op == code[Top(vm).ip + 1]
        ip == Top(vm).ip + 1
    IN  IF HasOperand(op)
        THEN IF ip + 2 > Len(code) THEN Panic(SetIp(vm, ip))
             ELSE LET n == read_u16(code, ip)
                      vm1 == SetIp(vm, ip + 2)
                  IN  CASE op = PUSH -> op_PUSH(vm1, n)
                        [] op = GET_LOCAL -> op_GET_LOCAL(vm1, n)
                        [] op = GET_UPVALUE -> op_GET_UPVALUE(vm1, n)
                        [] op = GET_GLOBAL -> op_GET_GLOBAL(vm1, n)
                        [] op = CALL -> op_CALL(vm1, n)
                        [] op = MAKE_ARRAY -> op_MAKE(vm1, n, ArrayV)
                        [] op = MAKE_BLOCK -> op_MAKE(vm1, n, BlockV)
                        [] op = CONCATENATE -> op_CONCATENATE(vm1, n)
                        [] op = JUMP -> op_JUMP(vm1, n, checks)
                        [] op = JUMP_IF_FALSE -> op_JUMP_IF_FALSE(vm1, n, checks)
        ELSE LET vm1 == SetIp(vm, ip)
             IN  CASE op = POP -> op_POP(vm1)
                   [] op = PUSH_LOCAL -> op_PUSH_LOCAL(vm1)
                   [] op = POP_LOCAL -> op_POP_LOCAL(vm1)
                   [] op = INDEX -> op_INDEX(vm1)
                   [] op = MAKE_CLOSURE -> op_MAKE_CLOSURE(vm1)
                   [] op \in {OR, AND} -> op_Logic(vm1, op)
                   [] op \in {ADD, SUBTRACT, MULTIPLY, DIVIDE} ->
                        op_Arithmetic(vm1, op, checks)
                   [] op \in {EQUAL, NOT_EQUAL} -> op_Equality(vm1, op)
                   [] op \in {GREATER_THAN, GREATER_THAN_EQUAL, LESS_THAN,
                              LESS_THAN_EQUAL} -> op_Comparison(vm1, op)
                   [] op = NEGATE -> op_NEGATE(vm1, checks)
                   [] op = NOT -> op_NOT(vm1)
                   [] OTHER -> Abort(vm1, "RuntimeError")

\* The end of VM::run: ip has reached code.len() and run returns Ok(()) to
\* its caller; interpret returns when the script's run does.
run_return(vm) ==
    LET vm1 == [vm EXCEPT !.frames = SubSeq(@, 1, Len(@) - 1)]
    IN  IF vm1.frames = <<>> THEN [vm1 EXCEPT !.phase = "done"] ELSE vm1

\* One step of the loop of Map::call or Loop::call: push the element and
\* its index and run the callback; when the run has returned, map pops the
\* mapped value; after the last element map pushes new_list.
iterate_step(vm) ==
    LET fr == Top(vm)
        n == Len(vm.frames)
    IN  IF fr.waiting
        THEN IF fr.kind = "loop"
             THEN [vm EXCEPT !.frames[n].waiting = FALSE, !.frames[n].i = @ + 1]
             ELSE IF vm.stack = <<>> THEN Abort(vm, "ValueStackUnderflow")
             ELSE [Drop(vm) EXCEPT !.frames[n].waiting = FALSE,
                                   !.frames[n].i = @ + 1,
                                   !.frames[n].new_list = Append(@, Peek(vm))]
        ELSE IF fr.i < Len(fr.list)
        THEN LET vm1 == Push(Push(vm, fr.list[fr.i + 1]), NumberV(fr.i))
             IN  Enter([vm1 EXCEPT !.frames[n].waiting = TRUE],
                       fr.callee.function, callee_upvalues(fr.callee))
        ELSE LET vm1 == [vm EXCEPT !.frames = SubSeq(@, 1, n - 1)]
             IN  IF fr.kind = "map" THEN Push(vm1, ArrayV(fr.new_list)) ELSE vm1

\* VM::new
NewVM ==
    [stack |-> <<>>, locals |-> <<>>, frames |-> <<>>, out |-> <<>>, files |-> {},
     phase |-> "compiling", error |-> [kind |-> "none", args |-> <<>>]]

\* VM::interpret from the return of compile to its call of run.  The dump
\* of the bytecode it prints in between is not part of `out`.
interpret(vm, c) ==
    IF c.err.kind = "Panic" THEN Panic(vm)
    ELSE IF Failed(c) THEN [vm EXCEPT !.phase = "compile_error"]
    ELSE [Enter(vm, c.functions[1], <<>>) EXCEPT !.phase = "running"]

(***************************************************************************)
(* scanner.rs: the Scanner.  The source is a sequence of characters, each  *)
(* a string of length one; start and cursor count characters.  A routine   *)
(* that returns a Token returns the scanner it leaves with the token.      *)
(***************************************************************************)
Digits == <<"0", "1", "2", "3", "4", "5", "6", "7", "8", "9">>
Letters ==
    {"a", "b", "c", "d", "e", "f", "g", "h", "i", "j", "k", "l", "m",
     "n", "o", "p", "q", "r", "s", "t", "u", "v", "w", "x", "y", "z"}
\* char::is_numeric, is_alphabetic and is_whitespace on these characters
is_numeric(c) == \E i \in 1..Len(Digits) : Digits[i] = c
is_alphabetic(c) == c \in Letters
is_whitespace(c) == c \in {" ", "\t", "\n", "\r"}
\* the backquote character, which a TLA+ string cannot hold
Backquote == "backquote"
DigitValue(c) == (CHOOSE i \in 1..Len(Digits) : Digits[i] = c) - 1

\* Scanner::new
NewScanner(source) == [source |-> source, start |-> 0, cursor |-> 0, line |-> 1]

\* Scanner::peek: <<c>> for Some(c), <<>> for None
ScannerPeek(s) ==
    IF s.cursor < Len(s.source) THEN <<s.source[s.cursor + 1]>> ELSE <<>>
\* Scanner::next returns ScannerPeek and leaves the cursor one further,
\* also at the end of the source
ScannerNext(s) == [s EXCEPT !.cursor = @ + 1]
\* Scanner::back_up
back_up(s) == IF s.cursor > 0 THEN [s EXCEPT !.cursor = @ - 1] ELSE s

\* Scanner::token
token(s, value) ==
    [scanner |-> IF value.k = "Newline" THEN [s EXCEPT !.line = @ + 1] ELSE s,
     token |-> <<value>>]

RECURSIVE Collect(_)
Collect(chars) == IF chars = <<>> THEN "" ELSE Head(chars) \o Collect(Tail(chars))
\* Scanner::lexeme: skip(start).take(cursor - start)
LexemeChars(s) ==
    IF s.start >= Len(s.source) THEN <<>>
    ELSE SubSeq(s.source, s.start + 1,
                IF s.cursor < Len(s.source) THEN s.cursor ELSE Len(s.source))
lexeme(s) == Collect(LexemeChars(s))

\* str::parse::<i32> of a sequence of digits: <<n>>, or <<>> for Err
RECURSIVE ParseI32(_, _)
ParseI32(chars, acc) ==
    IF chars = <<>> THEN <<acc>>
    ELSE LET d == DigitValue(Head(chars))
         IN  IF acc > (MaxI32 - d) \div 10 THEN <<>>
             ELSE ParseI32(Tail(chars), acc * 10 + d)

\* Scanner::number
RECURSIVE number(_)
number(s) ==
    IF ScannerPeek(s) # <<>> /\ is_numeric(ScannerPeek(s)[1])
    THEN number(ScannerNext(s))
    ELSE LET parsed == ParseI32(LexemeChars(s), 0)
         IN  IF parsed # <<>> /\ LexemeChars(s) # <<>> THEN token(s, Num(parsed[1]))
             ELSE token(s, [k |-> "InvalidNumber", s |-> lexeme(s), n |-> 0])

\* Scanner::string: str is the String s built so far
RECURSIVE string(_, _, _)
string(s, delim, str) ==
    LET c == ScannerPeek(s)
        s1 == ScannerNext(s)
    IN  IF c = <<>> THEN token(s1, [k |-> "UnterminatedString", s |-> str, n |-> 0])
        ELSE IF c[1] = "\\"
        THEN LET e == ScannerPeek(s1)
                 s2 == ScannerNext(s1)
             IN  IF e = <<>>
                 THEN token(s2, [k |-> "UnterminatedString", s |-> str \o "\\", n |-> 0])
                 ELSE string(s2, delim,
                             str \o (CASE e[1] = "n" -> "\n"
                                       [] e[1] = "t" -> "\t"
                                       [] e[1] = "r" -> "\r"
                                       [] OTHER -> e[1]))
        ELSE IF c[1] = delim THEN token(s1, Str(str))
        ELSE IF c[1] = "\n"
        THEN string([s1 EXCEPT !.line = @ + 1], delim, str \o "\n")
        ELSE string(s1, delim, str \o c[1])

\* the keyword or identifier of a lexeme
Keyword(word) ==
    CASE word = "true" -> Bool(TRUE)
      [] word = "false" -> Bool(FALSE)
      [] word = "for" -> Tok("For")
      [] word = "in" -> Tok("In")
      [] word = "if" -> Tok("If")
      [] word = "else" -> Tok("Else")
      [] OTHER -> Id(word)

\* Scanner::item
RECURSIVE item(_)
item(s) ==
    LET c == ScannerPeek(s)
        s1 == ScannerNext(s)
    IN  IF c = <<>> THEN token(s1, Keyword(lexeme(s1)))
        ELSE IF ~(is_alphabetic(c[1]) \/ is_numeric(c[1]) \/ c[1] \in {"_", "-", "'"})
        THEN token(back_up(s1), Keyword(lexeme(back_up(s1))))
        ELSE item(s1)

\* the arm of `#`: one self.next(), then next() up to a "\n" or the end
RECURSIVE SkipComment(_)
SkipComment(s) ==
    LET c == ScannerPeek(s)
        s1 == ScannerNext(s)
    IN  IF c = <<>> THEN s1
        ELSE IF c[1] = "\n" THEN [s1 EXCEPT !.line = @ + 1]
        ELSE SkipComment(s1)

\* the arms of one or two characters: `=` `==`, `<` `<=`, ...
OneOrTwo(s, second, two, one) ==
    IF ScannerPeek(s) = <<second>> THEN token(ScannerNext(s), two) ELSE token(s, one)

\* Scanner::next_token with start already set: token is <<>> for None
RECURSIVE ScanToken(_)
ScanToken(s0) ==
    LET c == ScannerPeek(s0)
        s == ScannerNext(s0)
        InvalidCharacter == [k |-> "InvalidCharacter", s |-> c[1], n |-> 0]
    IN  IF c = <<>> THEN [scanner |-> s, token |-> <<>>]
        ELSE CASE c[1] = "(" -> token(s, Tok("LeftParen"))
               [] c[1] = ")" -> token(s, Tok("RightParen"))
               [] c[1] = "[" -> token(s, Tok("LeftBracket"))
               [] c[1] = "]" -> token(s, Tok("RightBracket"))
               [] c[1] = "{" -> token(s, Tok("LeftBrace"))
               [] c[1] = "}" -> token(s, Tok("RightBrace"))
               [] c[1] = "." -> token(s, Tok("Dot"))
               [] c[1] = "=" -> OneOrTwo(s, "=", Tok("EqualEqual"), Tok("Equals"))
               [] c[1] = "+" -> token(s, Tok("Plus"))
               [] c[1] = "-" -> token(s, Tok("Minus"))
               [] c[1] = "*" -> token(s, Tok("Star"))
               [] c[1] = "#" ->
                    LET s1 == SkipComment(ScannerNext(s))
                    IN  ScanToken([s1 EXCEPT !.start = s1.cursor])
               [] c[1] = "/" -> token(s, Tok("Slash"))
               [] c[1] = "\\" -> token(s, Tok("BackSlash"))
               [] c[1] = "<" -> OneOrTwo(s, "=", Tok("LessThanEqual"), Tok("LessThan"))
               [] c[1] = ">" ->
                    OneOrTwo(s, "=", Tok("GreaterThanEqual"), Tok("GreaterThan"))
               [] c[1] = "!" -> OneOrTwo(s, "=", Tok("BangEqual"), Tok("Bang"))
               [] c[1] = "&" -> OneOrTwo(s, "&", Tok("And"), InvalidCharacter)
               [] c[1] = "|" -> OneOrTwo(s, "|", Tok("Or"), InvalidCharacter)
               [] c[1] = ":" -> token(s, Tok("Colon"))
               [] is_numeric(c[1]) -> number(s)
               [] c[1] \in {"\"", Backquote} -> string(s, c[1], "")
               [] is_whitespace(c[1]) ->
                    IF c[1] = "\n" THEN token(s, Tok("Newline"))
                    ELSE ScanToken([s EXCEPT !.start = s.cursor])
               [] is_alphabetic(c[1]) \/ c[1] = "_" -> item(s)
               [] OTHER -> token(s, InvalidCharacter)

\* Scanner::next_token
next_token(s) == ScanToken([s EXCEPT !.start = s.cursor])

(***************************************************************************)
(* The programs.  Each is the token sequence of the source in its comment. *)
(***************************************************************************)
EQ == Tok("Equals")
LP == Tok("LeftParen")
RP == Tok("RightParen")
LBK == Tok("LeftBracket")
RBK == Tok("RightBracket")
LBR == Tok("LeftBrace")
RBR == Tok("RightBrace")
DOT == Tok("Dot")
COLON == Tok("Colon")
BSL == Tok("BackSlash")
PLUS == Tok("Plus")
MINUS == Tok("Minus")
STAR == Tok("Star")
SLASH == Tok("Slash")
BANG == Tok("Bang")
IF_ == Tok("If")
ELSE_ == Tok("Else")

\* p: T
Param(p, T) == <<Id(p), COLON, Id(T)>>
\* println(e)
Println(e) == <<Id("println"), LP>> \o e \o <<RP>>

\* println(1 + 2 * 3)
ProgArith == Println(<<Num(1), PLUS, Num(2), STAR, Num(3)>>)

\* add a: number b: number = a + b
\* println(add 3 4)
ProgAdd ==
    <<Id("add")>> \o Param("a", "number") \o Param("b", "number")
        \o <<EQ, Id("a"), PLUS, Id("b"), NL>>
        \o Println(<<Id("add"), Num(3), Num(4)>>)

\* add \ a: number b: number = a + b
\* println(add 3 4)
ProgAddBackslash ==
    <<Id("add"), BSL>> \o Param("a", "number") \o Param("b", "number")
        \o <<EQ, Id("a"), PLUS, Id("b"), NL>>
        \o Println(<<Id("add"), Num(3), Num(4)>>)

\* adder n: number = \ x: number = x + n
\* a5 = adder 5
\* println(a5 10)
ProgAdder ==
    <<Id("adder")>> \o Param("n", "number") \o <<EQ, BSL>> \o Param("x", "number")
        \o <<EQ, Id("x"), PLUS, Id("n"), NL>>
        \o <<Id("a5"), EQ, Id("adder"), Num(5), NL>>
        \o Println(<<Id("a5"), Num(10)>>)

\* xs = [1 2 3 4]
\* ys = map xs \ v: number i: number = v * v
\* println(length ys)
\* println(ys.3)
ProgMap ==
    <<Id("xs"), EQ, LBK, Num(1), Num(2), Num(3), Num(4), RBK, NL>>
        \o <<Id("ys"), EQ, Id("map"), Id("xs"), BSL>>
        \o Param("v", "number") \o Param("i", "number")
        \o <<EQ, Id("v"), STAR, Id("v"), NL>>
        \o Println(<<Id("length"), Id("ys")>>) \o <<NL>>
        \o Println(<<Id("ys"), DOT, Num(3)>>)

\* x = if true "yes" else "no"
\* println(x)
ProgIf ==
    <<Id("x"), EQ, IF_, Bool(TRUE), Str("yes"), ELSE_, Str("no"), NL>>
        \o Println(<<Id("x")>>)

Scenarios == {ProgArith, ProgAdd, ProgAddBackslash, ProgAdder, ProgMap, ProgIf}

\* ()
ProgUnit == <<LP, RP>>

\* f c: boolean = if c y = 1
\* f <b>
ProgBindInBranch(b) ==
    <<Id("f")>> \o Param("c", "boolean")
        \o <<EQ, IF_, Id("c"), Id("y"), EQ, Num(1), NL, Id("f"), Bool(b)>>

\* if <b> y = 1
\* println(y)
ProgBindInIf(b) ==
    <<IF_, Bool(b), Id("y"), EQ, Num(1), NL>> \o Println(<<Id("y")>>)

Bindings == {ProgUnit} \cup {ProgBindInBranch(b) : b \in BOOLEAN}
                \cup {ProgBindInIf(b) : b \in BOOLEAN}

\* v = 7
\* f a: number = \ b: number = v + a + b
\* g = f 1
\* w = 0
\* println(g 2)
ProgCapture ==
    <<Id("v"), EQ, Num(7), NL>>
        \o <<Id("f")>> \o Param("a", "number") \o <<EQ, BSL>> \o Param("b", "number")
        \o <<EQ, Id("v"), PLUS, Id("a"), PLUS, Id("b"), NL>>
        \o <<Id("g"), EQ, Id("f"), Num(1), NL>>
        \o <<Id("w"), EQ, Num(0), NL>>
        \o Println(<<Id("g"), Num(2)>>)

Closures == {ProgCapture}

\* The largest number of function-nesting levels between a variable and
\* its reference, and of locals declared before the variable.
MaxLevels == 3
MaxPad == 1

PadNames == <<"p1", "p2", "p3", "p4">>

\* p1 = 0 ... pn = 0, a line each
RECURSIVE Pad(_)
Pad(n) ==
    IF n = 0 THEN <<>> ELSE Pad(n - 1) \o <<Id(PadNames[n]), EQ, Num(0), NL>>

\* \ x: number = ... \ x: number =, k times
RECURSIVE Lambdas(_)
Lambdas(k) ==
    IF k = 0 THEN <<>>
    ELSE <<BSL>> \o Param("x", "number") \o <<EQ>> \o Lambdas(k - 1)

\* f 0 for k = 1, (f 0) 0 for k = 2, ((f 0) 0) 0 for k = 3, ...
RECURSIVE CallChain(_)
CallChain(k) ==
    IF k = 1 THEN <<Id("f"), Num(0)>>
    ELSE <<LP>> \o CallChain(k - 1) \o <<RP, Num(0)>>

\* p1 = 0 ... (pad lines)
\* v = 7
\* f x: number = \ x: number = ... v   (k functions deep)
\* println(((f 0) 0) ...)
UpvalueProg(k, pad) ==
    Pad(pad) \o <<Id("v"), EQ, Num(7), NL>>
        \o <<Id("f")>> \o Param("x", "number") \o <<EQ>> \o Lambdas(k - 1)
        \o <<Id("v"), NL>>
        \o Println(CallChain(k))

\* a = 1
\* b = 2
\* f x: number = \ y: number = b - a
\* println((f 0) 0)
ProgTwoUpvalues ==
    <<Id("a"), EQ, Num(1), NL, Id("b"), EQ, Num(2), NL>>
        \o <<Id("f")>> \o Param("x", "number") \o <<EQ, BSL>> \o Param("y", "number")
        \o <<EQ, Id("b"), MINUS, Id("a"), NL>>
        \o Println(<<LP, Id("f"), Num(0), RP, Num(0)>>)

Upvalues ==
    {UpvalueProg(k, pad) : k \in 1..MaxLevels, pad \in 0..MaxPad}
        \cup {ProgTwoUpvalues}

\* The largest number of parameters of a function binding.
MaxParams == 2

\* p1[: number] ... pn[: number]
RECURSIVE Params(_, _)
Params(n, typed) ==
    IF n = 0 THEN <<>>
    ELSE Params(n - 1, typed)
             \o (IF typed THEN Param(PadNames[n], "number") ELSE <<Id(PadNames[n])>>)

\* p1 + ... + pn
RECURSIVE SumOfParams(_)
SumOfParams(n) ==
    IF n = 1 THEN <<Id(PadNames[1])>>
    ELSE SumOfParams(n - 1) \o <<PLUS, Id(PadNames[n])>>

\* 1 2 ... n
Numbers(n) == [i \in 1..n |-> Num(i)]

\* fn p1[: number] ... pn[: number] = p1 + ... + pn
\* println(fn 1 ... n)
FunctionBinding(n, typed) ==
    <<Id("fn")>> \o Params(n, typed) \o <<EQ>> \o SumOfParams(n) \o <<NL>>
        \o Println(<<Id("fn")>> \o Numbers(n))

FunctionBindings == {FunctionBinding(n, typed) : n \in 1..MaxParams, typed \in BOOLEAN}

\* x = 1
\* x = 2
\* println(x)
ProgRebind ==
    <<Id("x"), EQ, Num(1), NL, Id("x"), EQ, Num(2), NL>> \o Println(<<Id("x")>>)

\* (x = 1
\* x = 2
\* println(x))
ProgRebindInGroup == <<LP>> \o ProgRebind \o <<RP>>

Rebindings == {ProgRebind, ProgRebindInGroup}

\* println(if <cond> 2 else 3)
ProgIfCond(cond) == Println(<<IF_>> \o cond \o <<Num(2), ELSE_, Num(3)>>)

NonBooleanConditions ==
    {ProgIfCond(cond) : cond \in {<<Num(1)>>, <<Num(0)>>, <<Str("a")>>,
                                  <<Num(1), PLUS, Num(2)>>}}

\* The branches of a conditional, and the static type of each.
Branches ==
    {<<Num(1)>>, <<Str("a")>>, <<Bool(TRUE)>>, <<Num(1), PLUS, Num(2)>>,
     <<BANG, Bool(FALSE)>>, <<Str("b")>>}
BranchKind(b) ==
    CASE b[1].k = "Number" -> TNumber
      [] b[1].k = "String" -> TString
      [] OTHER -> TBoolean

\* r = if true <b1> else <b2>
\* println(r)
ProgBranches(b1, b2) ==
    <<Id("r"), EQ, IF_, Bool(TRUE)>> \o b1 \o <<ELSE_>> \o b2 \o <<NL>>
        \o Println(<<Id("r")>>)

Conditionals == {ProgBranches(b1, b2) : b1, b2 \in Branches}

\* f a: number = a
DefineF == <<Id("f")>> \o Param("a", "number") \o <<EQ, Id("a"), NL>>
\* h a: number b: string = a
DefineH ==
    <<Id("h")>> \o Param("a", "number") \o Param("b", "string") \o <<EQ, Id("a"), NL>>
TypeOfF == TFunction(<<TNumber>>, TNumber)
TypeOfH == TFunction(<<TNumber, TString>>, TNumber)

\* A use of f or h bound to r, with what compile is to make of it: the error,
\* or the script's code after the definition and the static type of r.
CallCase(define, use, err, code, type) ==
    [tokens |-> define \o <<Id("r"), EQ>> \o use, err |-> err, code |-> code,
     type |-> type]

CallCases ==
    { \* r = f 1
      CallCase(DefineF, <<Id("f"), Num(1)>>, "",
               <<GET_LOCAL, 0, 0, PUSH, 0, 1, CALL, 0, 1, PUSH_LOCAL>>, TNumber),
      \* r = f 1 2
      CallCase(DefineF, <<Id("f"), Num(1), Num(2)>>, "",
               <<GET_LOCAL, 0, 0, PUSH, 0, 1, CALL, 0, 1, PUSH_LOCAL,
                 PUSH, 0, 2, POP>>, TNumber),
      \* r = f "s"
      CallCase(DefineF, <<Id("f"), Str("s")>>, "ArgumentTypeMismatch", <<>>, TNil),
      \* r = f true
      CallCase(DefineF, <<Id("f"), Bool(TRUE)>>, "ArgumentTypeMismatch", <<>>, TNil),
      \* r = f
      CallCase(DefineF, <<Id("f")>>, "", <<GET_LOCAL, 0, 0, PUSH_LOCAL>>, TypeOfF),
      \* r = f
      \* 1
      CallCase(DefineF, <<Id("f"), NL, Num(1)>>, "",
               <<GET_LOCAL, 0, 0, PUSH_LOCAL, PUSH, 0, 1, POP>>, TypeOfF),
      \* r = (f)
      CallCase(DefineF, <<LP, Id("f"), RP>>, "",
               <<GET_LOCAL, 0, 0, PUSH_LOCAL>>, TypeOfF),
      \* r = (f) 1
      CallCase(DefineF, <<LP, Id("f"), RP, Num(1)>>, "",
               <<GET_LOCAL, 0, 0, PUSH, 0, 1, CALL, 0, 1, PUSH_LOCAL>>, TNumber),
      \* r = h 1 "s"
      CallCase(DefineH, <<Id("h"), Num(1), Str("s")>>, "",
               <<GET_LOCAL, 0, 0, PUSH, 0, 1, PUSH, 0, 2, CALL, 0, 2, PUSH_LOCAL>>,
               TNumber),
      \* r = h 1 "s" 3
      CallCase(DefineH, <<Id("h"), Num(1), Str("s"), Num(3)>>, "",
               <<GET_LOCAL, 0, 0, PUSH, 0, 1, PUSH, 0, 2, CALL, 0, 2, PUSH_LOCAL,
                 PUSH, 0, 3, POP>>, TNumber),
      \* r = h 1 2
      CallCase(DefineH, <<Id("h"), Num(1), Num(2)>>, "ArgumentTypeMismatch", <<>>, TNil),
      \* r = h "s" "s"
      CallCase(DefineH, <<Id("h"), Str("s"), Str("s")>>, "ArgumentTypeMismatch",
               <<>>, TNil),
      \* r = h
      CallCase(DefineH, <<Id("h")>>, "", <<GET_LOCAL, 0, 0, PUSH_LOCAL>>, TypeOfH),
      \* r = (h) 1 "s"
      CallCase(DefineH, <<LP, Id("h"), RP, Num(1), Str("s")>>, "",
               <<GET_LOCAL, 0, 0, PUSH, 0, 1, PUSH, 0, 2, CALL, 0, 2, PUSH_LOCAL>>,
               TNumber) }

Calls == {case.tokens : case \in CallCases}

\* A reference to an identifier inside a function `levels` functions below
\* the script, with the instruction compile is to make of the reference.
ResolveCase(source, levels, op, index) ==
    [tokens |-> source, levels |-> levels, op |-> op, index |-> index]

ResolveCases ==
    { \* v = 1
      \* f v: number = v
      ResolveCase(<<Id("v"), EQ, Num(1), NL, Id("f")>> \o Param("v", "number")
                      \o <<EQ, Id("v")>>, 1, GET_LOCAL, 0),
      \* f println: number = println
      ResolveCase(<<Id("f")>> \o Param("println", "number") \o <<EQ, Id("println")>>,
                  1, GET_LOCAL, 0),
      \* v = 1
      \* f x: number = \ v: number = v
      ResolveCase(<<Id("v"), EQ, Num(1), NL, Id("f")>> \o Param("x", "number")
                      \o <<EQ, BSL>> \o Param("v", "number") \o <<EQ, Id("v")>>,
                  2, GET_LOCAL, 0),
      \* f length: number = \ length: number = length
      ResolveCase(<<Id("f")>> \o Param("length", "number") \o <<EQ, BSL>>
                      \o Param("length", "number") \o <<EQ, Id("length")>>,
                  2, GET_LOCAL, 0),
      \* f length: number = \ x: number = length
      ResolveCase(<<Id("f")>> \o Param("length", "number") \o <<EQ, BSL>>
                      \o Param("x", "number") \o <<EQ, Id("length")>>,
                  2, GET_UPVALUE, 0),
      \* v = 1
      \* f x: number = v
      ResolveCase(<<Id("v"), EQ, Num(1), NL, Id("f")>> \o Param("x", "number")
                      \o <<EQ, Id("v")>>, 1, GET_UPVALUE, 0),
      \* f x: number = length
      ResolveCase(<<Id("f")>> \o Param("x", "number") \o <<EQ, Id("length")>>,
                  1, GET_GLOBAL, 5),
      \* f x: number = \ y: number = length
      ResolveCase(<<Id("f")>> \o Param("x", "number") \o <<EQ, BSL>>
                      \o Param("y", "number") \o <<EQ, Id("length")>>,
                  2, GET_GLOBAL, 5) }

Resolutions == {case.tokens : case \in ResolveCases}

\* f x[: number] = <body>, where the body refers to f
SelfReference(typed, body) ==
    <<Id("f")>> \o (IF typed THEN Param("x", "number") ELSE <<Id("x")>>)
        \o <<EQ>> \o body

SelfReferenceBodies ==
    { \* f x
      <<Id("f"), Id("x")>>,
      \* f
      <<Id("f")>>,
      \* 1 + f 2
      <<Num(1), PLUS, Id("f"), Num(2)>>,
      \* (f 1)
      <<LP, Id("f"), Num(1), RP>>,
      \* if true f 1 else 0
      <<IF_, Bool(TRUE), Id("f"), Num(1), ELSE_, Num(0)>>,
      \* println(f 1)
      Println(<<Id("f"), Num(1)>>),
      \* y = f 1
      <<Id("y"), EQ, Id("f"), Num(1)>> }

SelfReferences ==
    {SelfReference(typed, body) : typed \in BOOLEAN, body \in SelfReferenceBodies}

\* r = (x = 2     (when before)
\*      1
\*      z = 3)    (when after)
\* println(r)
GroupOfOne(before, after) ==
    <<Id("r"), EQ, LP>>
        \o (IF before THEN <<Id("x"), EQ, Num(2), NL>> ELSE <<>>)
        \o <<Num(1)>>
        \o (IF after THEN <<NL, Id("z"), EQ, Num(3)>> ELSE <<>>)
        \o <<RP, NL>> \o Println(<<Id("r")>>)

GroupsOfOne == {GroupOfOne(before, after) : before, after \in BOOLEAN}

\* The Nil-typed expressions put among the elements of an array literal:
\* none, the empty group `()`, and the binding `y = 0`.
NilExpressions == {<<>>, <<LP, RP>>, <<Id("y"), EQ, Num(0), NL>>}

\* xs = [<first> 1 <second> 2 <third>]
\* println(xs.0)
\* println(xs.1)
ListWithNil(first, second, third) ==
    <<Id("xs"), EQ, LBK>> \o first \o <<Num(1)>> \o second \o <<Num(2)>> \o third
        \o <<RBK, NL>>
        \o Println(<<Id("xs"), DOT, Num(0)>>) \o <<NL>>
        \o Println(<<Id("xs"), DOT, Num(1)>>)

ListsWithNil ==
    {ListWithNil(e, <<>>, <<>>) : e \in NilExpressions}
        \cup {ListWithNil(<<>>, e, <<>>) : e \in NilExpressions}
        \cup {ListWithNil(<<>>, <<>>, e) : e \in NilExpressions}

\* println(<expression>), with what the expression prints when 32-bit
\* arithmetic wraps.
WrapCase(e, printed) == [tokens |-> Println(e), out |-> <<printed>>]

WrapCases ==
    { \* 2147483647 + 1
      WrapCase(<<Num(2147483647), PLUS, Num(1)>>, "-2147483648\n"),
      \* -2147483647 - 2
      WrapCase(<<MINUS, Num(2147483647), MINUS, Num(2)>>, "2147483647\n"),
      \* 65536 * 65536
      WrapCase(<<Num(65536), STAR, Num(65536)>>, "0\n"),
      \* 65537 * -65536
      WrapCase(<<Num(65537), STAR, MINUS, Num(65536)>>, "-65536\n"),
      \* -(-2147483647 - 1)
      WrapCase(<<MINUS, LP, MINUS, Num(2147483647), MINUS, Num(1), RP>>,
               "-2147483648\n"),
      \* (-2147483647 - 1) / -1
      WrapCase(<<LP, MINUS, Num(2147483647), MINUS, Num(1), RP, SLASH, MINUS, Num(1)>>,
               "-2147483648\n"),
      \* 2147483647 / 2
      WrapCase(<<Num(2147483647), SLASH, Num(2)>>, "1073741823\n"),
      \* -7 / 2
      WrapCase(<<MINUS, Num(7), SLASH, Num(2)>>, "-3\n") }

Overflows == {case.tokens : case \in WrapCases}

MaxItems == 2

\* xs = [10 20 ...]          (len elements)
\* println(xs.<n>)           (n written (0 - 1) when it is -1)
IndexProg(len, n) ==
    <<Id("xs"), EQ, LBK>> \o [i \in 1..len |-> Num(10 * i)] \o <<RBK, NL>>
        \o Println(<<Id("xs"), DOT>>
                       \o (IF n < 0 THEN <<LP, Num(0), MINUS, Num(-n), RP>>
                           ELSE <<Num(n)>>))

Indexings == {IndexProg(len, n) : len \in 1..MaxItems, n \in -1..(MaxItems + 1)}


\* print(<argument>) and println(<argument>), alone and as the first
\* expression of the argument of another call:
\* println(print(1) 2)
PrintCall(name, argument) == <<Id(name), LP>> \o argument \o <<RP>>
PrintArguments == {<<Num(1)>>, <<Str("a")>>, <<Num(1), PLUS, Num(2)>>, <<Str("a"), Num(1)>>}
PrintNames == {"print", "println"}
ProgPrintInPrint(inner, outer) ==
    PrintCall(outer, PrintCall(inner, <<Num(1)>>) \o <<Num(2)>>)
Prints ==
    {PrintCall(name, argument) : name \in PrintNames, argument \in PrintArguments}
        \cup {ProgPrintInPrint(inner, outer) : inner \in PrintNames, outer \in PrintNames}


\* xs = [<xs>]
\* ys = map xs \ <callback>
\* println(ys)
MapProg(xs, callback) ==
    <<Id("xs"), EQ, LBK>> \o xs \o <<RBK, NL>>
        \o <<Id("ys"), EQ, Id("map"), Id("xs"), BSL>> \o callback \o <<NL>>
        \o Println(<<Id("ys")>>)

MapArrays == {<<>>, <<Num(10), Num(20)>>, <<Str("a"), Str("b")>>}

\* v: number i: number = v + i
CallbackSum ==
    Param("v", "number") \o Param("i", "number") \o <<EQ, Id("v"), PLUS, Id("i")>>
\* v: any i: number = i
CallbackIndex == Param("v", "any") \o Param("i", "number") \o <<EQ, Id("i")>>
\* v: any i: number = [v i]
CallbackPair ==
    Param("v", "any") \o Param("i", "number") \o <<EQ, LBK, Id("v"), Id("i"), RBK>>
\* v: any = v
CallbackOneParam == Param("v", "any") \o <<EQ, Id("v")>>
\* v: any i: number = print(v)
CallbackNil ==
    Param("v", "any") \o Param("i", "number") \o <<EQ, Id("print"), LP, Id("v"), RP>>

MapCallbacks == {CallbackSum, CallbackIndex, CallbackPair, CallbackOneParam, CallbackNil}

Maps == {MapProg(xs, callback) : xs \in MapArrays, callback \in MapCallbacks}

\* What println(ys) prints when ys[i] is the callback's result for (xs[i], i),
\* for the callbacks whose result is a value whatever xs[i] is.
MapCase(xs, callback, printed) ==
    [tokens |-> MapProg(xs, callback), out |-> <<printed>>]
MapResults ==
    {MapCase(<<>>, callback, "\n") : callback \in MapCallbacks}
        \cup {MapCase(<<Num(10), Num(20)>>, CallbackSum, "1021\n"),
              MapCase(<<Num(10), Num(20)>>, CallbackIndex, "01\n"),
              MapCase(<<Str("a"), Str("b")>>, CallbackIndex, "01\n"),
              MapCase(<<Num(10), Num(20)>>, CallbackPair, "100201\n"),
              MapCase(<<Str("a"), Str("b")>>, CallbackPair, "a0b1\n")}


\* println(<a> <op1> <b> <op2> <c>)
Operators == {PLUS, MINUS, STAR, SLASH}
OperandTriples == {<<12, 3, 2>>, <<7, 2, 3>>, <<2, 12, 5>>}
PrecedenceProg(abc, op1, op2) ==
    Println(<<Num(abc[1]), op1, Num(abc[2]), op2, Num(abc[3])>>)
Precedences ==
    {PrecedenceProg(abc, op1, op2) : abc \in OperandTriples, op1, op2 \in Operators}

\* i32 arithmetic on operands that neither overflow nor divide by zero
Applied(op, a, b) ==
    CASE op = PLUS -> a + b
      [] op = MINUS -> a - b
      [] op = STAR -> a * b
      [] op = SLASH -> TruncDiv(a, b)
\* a op1 b op2 c by the ladder: * and / bind tighter than + and -, and
\* operators of one level group from the left
Multiplicative(op) == op \in {STAR, SLASH}
LadderValue(abc, op1, op2) ==
    IF Multiplicative(op2) /\ ~Multiplicative(op1)
    THEN Applied(op1, abc[1], Applied(op2, abc[2], abc[3]))
    ELSE Applied(op2, Applied(op1, abc[1], abc[2]), abc[3])


\* r = if <cond> <t> else <e>        (no else when e is empty)
\* println(r)
IfProg(cond, t, e) ==
    <<Id("r"), EQ, IF_, Bool(cond)>> \o t
        \o (IF e = <<>> THEN <<>> ELSE <<ELSE_>> \o e) \o <<NL>>
        \o Println(<<Id("r")>>)
ThenBranches == {<<Num(1)>>, <<Num(1), PLUS, Num(2)>>}
ElseBranches == {<<>>, <<Num(5)>>, <<Num(5), STAR, Num(2)>>}
IfElses ==
    {IfProg(cond, t, e) : cond \in BOOLEAN, t \in ThenBranches, e \in ElseBranches}


\* What a call is to print when every parameter reads its argument.
ConventionCase(program, printed) == [tokens |-> program, out |-> printed]

\* f a: number b: number c: number = a * 100 + b * 10 + c
\* println(f 1 2 3)
ProgPlainCall ==
    <<Id("f")>> \o Param("a", "number") \o Param("b", "number") \o Param("c", "number")
        \o <<EQ, Id("a"), STAR, Num(100), PLUS, Id("b"), STAR, Num(10), PLUS, Id("c"), NL>>
        \o Println(<<Id("f"), Num(1), Num(2), Num(3)>>)
\* v = 1
\* f a: number b: number = a - b - v
\* println(f 7 2)
ProgClosureCall ==
    <<Id("v"), EQ, Num(1), NL>>
        \o <<Id("f")>> \o Param("a", "number") \o Param("b", "number")
        \o <<EQ, Id("a"), MINUS, Id("b"), MINUS, Id("v"), NL>>
        \o Println(<<Id("f"), Num(7), Num(2)>>)
\* xs = [10 20]
\* println(map xs \ v: number i: number = v - i)
ProgMapCall ==
    <<Id("xs"), EQ, LBK, Num(10), Num(20), RBK, NL>>
        \o Println(<<Id("map"), Id("xs"), BSL>> \o Param("v", "number")
                       \o Param("i", "number") \o <<EQ, Id("v"), MINUS, Id("i")>>)
\* xs = [10 20]
\* loop xs \ v: number i: number = println(v - i)
ProgLoopCall ==
    <<Id("xs"), EQ, LBK, Num(10), Num(20), RBK, NL>>
        \o <<Id("loop"), Id("xs"), BSL>> \o Param("v", "number") \o Param("i", "number")
        \o <<EQ>> \o Println(<<Id("v"), MINUS, Id("i")>>)
\* g a: number c: boolean = (if c y = 1
\* 0) - a
\* println(g 5 <c>)
ProgBindBeforeReference(c) ==
    <<Id("g")>> \o Param("a", "number") \o Param("c", "boolean")
        \o <<EQ, LP, IF_, Id("c"), Id("y"), EQ, Num(1), NL, Num(0), RP, MINUS, Id("a"), NL>>
        \o Println(<<Id("g"), Num(5), Bool(c)>>)

ConventionCases ==
    {ConventionCase(ProgPlainCall, <<"123\n">>),
     ConventionCase(ProgClosureCall, <<"4\n">>),
     ConventionCase(ProgMapCall, <<"1019\n">>),
     ConventionCase(ProgLoopCall, <<"10\n", "19\n">>)}
        \cup {ConventionCase(ProgBindBeforeReference(c), <<"-5\n">>) : c \in BOOLEAN}
Conventions == {case.tokens : case \in ConventionCases}


\* get p: {<B: name = number ...>} = p.<f>
\* b = {<A: name = value, a line each>}
\* println(get b)
\* with k = 20 and m = 10 in the block.
FieldValue(name) == IF name = "k" THEN 20 ELSE 10
RECURSIVE BlockTypeTokens(_)
BlockTypeTokens(names) ==
    IF names = <<>> THEN <<>>
    ELSE <<Id(Head(names)), EQ, Id("number")>> \o BlockTypeTokens(Tail(names))
RECURSIVE BlockTokens(_)
BlockTokens(names) ==
    IF names = <<>> THEN <<>>
    ELSE <<Id(Head(names)), EQ, Num(FieldValue(Head(names))), NL>>
             \o BlockTokens(Tail(names))
DotProg(A, B, f) ==
    <<Id("get"), Id("p"), COLON, LBR>> \o BlockTypeTokens(B) \o <<RBR, EQ>>
        \o <<Id("p"), DOT, Id(f), NL>>
        \o <<Id("b"), EQ, LBR>> \o BlockTokens(A) \o <<RBR, NL>>
        \o Println(<<Id("get"), Id("b")>>)
FieldOrders == {<<"k">>, <<"m">>, <<"k", "m">>, <<"m", "k">>}
Names(order) == {order[i] : i \in 1..Len(order)}
\* the blocks A that satisfy the constraint B, and a field f of B
DotCases ==
    {<<A, B, f>> \in FieldOrders \X FieldOrders \X {"k", "m"} :
        Names(B) \subseteq Names(A) /\ f \in Names(B)}
DotAccesses == {DotProg(case[1], case[2], case[3]) : case \in DotCases}


\* fn x = <body>                (x without annotation)
\* println(fn 5)
InferenceProg(body) ==
    <<Id("fn"), Id("x"), EQ>> \o body \o <<NL>> \o Println(<<Id("fn"), Num(5)>>)
\* x + 1, 1, x, (x), -x
InferenceBodies ==
    {<<Id("x"), PLUS, Num(1)>>, <<Num(1)>>, <<Id("x")>>, <<LP, Id("x"), RP>>,
     <<MINUS, Id("x")>>}
Inferences == {InferenceProg(body) : body \in InferenceBodies}


\* xs = [<xs>]
\* loop xs \ <callback>
LoopProg(xs, callback) ==
    <<Id("xs"), EQ, LBK>> \o xs \o <<RBK, NL>>
        \o <<Id("loop"), Id("xs"), BSL>> \o callback
\* v: any i: number = println(v)
CallbackPrintln ==
    Param("v", "any") \o Param("i", "number") \o <<EQ>> \o Println(<<Id("v")>>)
LoopCallbacks == {CallbackPrintln, CallbackSum, CallbackIndex}
LoopArrays == {<<>>, <<Num(10), Num(20)>>}
Loops == {LoopProg(xs, callback) : xs \in LoopArrays, callback \in LoopCallbacks}


\* f x = \ y: number = x + 1
ProgAssertUpvalue ==
    <<Id("f"), Id("x"), EQ, BSL>> \o Param("y", "number")
        \o <<EQ, Id("x"), PLUS, Num(1)>>
\* f x = \ y: string = (y
\* x + 1)
ProgAssertUpvalueAfterLocal ==
    <<Id("f"), Id("x"), EQ, BSL>> \o Param("y", "string")
        \o <<EQ, LP, Id("y"), NL, Id("x"), PLUS, Num(1), RP>>
\* id x = x
\* r = (id 1) + 1
ProgAssertCallResult ==
    <<Id("id"), Id("x"), EQ, Id("x"), NL>>
        \o <<Id("r"), EQ, LP, Id("id"), Num(1), RP, PLUS, Num(1)>>
\* fn x y: number = x - y
ProgAssertParameter ==
    <<Id("fn"), Id("x")>> \o Param("y", "number") \o <<EQ, Id("x"), MINUS, Id("y")>>
Assertions ==
    {ProgAssertUpvalue, ProgAssertUpvalueAfterLocal, ProgAssertCallResult,
     ProgAssertParameter}


Programs ==
    Scenarios \cup Bindings \cup Closures \cup Upvalues \cup FunctionBindings
        \cup Rebindings \cup NonBooleanConditions \cup Conditionals \cup Calls
        \cup Resolutions \cup SelfReferences \cup GroupsOfOne
        \cup ListsWithNil \cup Overflows \cup Indexings \cup Prints \cup Maps
        \cup Precedences \cup IfElses \cup Conventions \cup DotAccesses
        \cup Inferences \cup Loops \cup Assertions

(***************************************************************************)
(* The state machine: interpret compiles the program and runs it.          *)
(***************************************************************************)
Machine ==
    [stack |-> stack, locals |-> locals, frames |-> frames, out |-> out,
     files |-> files, phase |-> phase, error |-> error]

Becomes(vm) ==
    /\ stack' = vm.stack
    /\ locals' = vm.locals
    /\ frames' = vm.frames
    /\ out' = vm.out
    /\ files' = vm.files
    /\ phase' = vm.phase
    /\ error' = vm.error

Init ==
    /\ tokens \in Programs
    /\ overflow_checks \in BOOLEAN
    /\ compiler = compile(tokens)
    /\ stack = NewVM.stack
    /\ locals = NewVM.locals
    /\ frames = NewVM.frames
    /\ out = NewVM.out
    /\ files = NewVM.files
    /\ phase = NewVM.phase
    /\ error = NewVM.error
    /\ types = <<>>
    /\ satisfied = <<>>
    /\ scanner = <<>>

InRun == phase = "running" /\ Top(Machine).kind = "run"
AtCodeEnd == Top(Machine).ip >= Len(Top(Machine).function.chunk.code)

\* The compiler's routine on top runs to its next call or return.
Compile ==
    /\ phase = "compiling" /\ ~Returned(compiler)
    /\ compiler' = step(compiler)
    /\ UNCHANGED <<tokens, phase, stack, locals, frames, out, files, error,
                   overflow_checks, types, satisfied, scanner>>

\* VM::interpret: compile has returned; the script function is run.
Interpret ==
    /\ phase = "compiling" /\ Returned(compiler)
    /\ Becomes(interpret(Machine, compiler))
    /\ UNCHANGED <<tokens, compiler, overflow_checks, types, satisfied, scanner>>

\* VM::run executes one instruction
Step ==
    /\ InRun /\ ~AtCodeEnd
    /\ Becomes(run_step(Machine, overflow_checks))
    /\ UNCHANGED <<tokens, compiler, overflow_checks, types, satisfied, scanner>>

\* VM::run returns
Return ==
    /\ InRun /\ AtCodeEnd
    /\ Becomes(run_return(Machine))
    /\ UNCHANGED <<tokens, compiler, overflow_checks, types, satisfied, scanner>>

\* Map::call or Loop::call goes round its loop once
Iterate ==
    /\ phase = "running" /\ Top(Machine).kind \in {"map", "loop"}
    /\ Becomes(iterate_step(Machine))
    /\ UNCHANGED <<tokens, compiler, overflow_checks, types, satisfied, scanner>>

Next == Compile \/ Interpret \/ Step \/ Return \/ Iterate

Spec == Init /\ [][Next]_vars

(***************************************************************************)
(* Type::satisfies on its own: a call with two types of a bounded set.     *)
(***************************************************************************)
\* The largest number of fields of a Block type.
MaxFields == 2

FieldNames == {"k", "m"}
FieldTypes == {TNumber, TString, TAny}
Fields == [name : FieldNames, type : FieldTypes]
BlockTypes == {TBlock(fields) : fields \in UNION {[1..n -> Fields] : n \in 0..MaxFields}}
FunctionTypes ==
    {TFunction(params, ret) :
        params \in UNION {[1..n -> FieldTypes] : n \in 0..MaxParams},
        ret \in FieldTypes}
Types == {TNumber, TString, TBoolean, TNil, TAny} \cup BlockTypes \cup FunctionTypes

TypeInit ==
    /\ types \in Types \X Types
    /\ satisfied = <<>>
    /\ tokens = <<>>
    /\ overflow_checks = FALSE
    /\ compiler = compile(tokens)
    /\ stack = NewVM.stack
    /\ locals = NewVM.locals
    /\ frames = NewVM.frames
    /\ out = NewVM.out
    /\ files = NewVM.files
    /\ phase = NewVM.phase
    /\ error = NewVM.error
    /\ scanner = <<>>

\* self.satisfies(constraint)
Satisfies ==
    /\ satisfied = <<>>
    /\ satisfied' = <<satisfies(types[1], types[2])>>
    /\ UNCHANGED <<tokens, compiler, phase, stack, locals, frames, out, files, error,
                   overflow_checks, types, scanner>>

TypeSpec == TypeInit /\ [][Satisfies]_vars

(***************************************************************************)
(* The Scanner on its own: Scanner::new on a source of a bounded set, then *)
(* next_token until it returns None; tokens collects what it returned.     *)
(***************************************************************************)
MaxSource == 4
Alphabet == {"#", "\n", "a", "1", "+", " "}
Sources == UNION {[1..n -> Alphabet] : n \in 0..MaxSource}

ScanInit ==
    /\ scanner \in {NewScanner(source) : source \in Sources}
    /\ tokens = <<>>
    /\ phase = "scanning"
    /\ overflow_checks = FALSE
    /\ compiler = compile(<<>>)
    /\ stack = NewVM.stack
    /\ locals = NewVM.locals
    /\ frames = NewVM.frames
    /\ out = NewVM.out
    /\ files = NewVM.files
    /\ error = NewVM.error
    /\ types = <<>>
    /\ satisfied = <<>>

\* Iterator::next on the Scanner
Scan ==
    /\ phase = "scanning"
    /\ LET r == next_token(scanner)
       IN  /\ scanner' = r.scanner
           /\ tokens' = IF r.token = <<>> THEN tokens ELSE Append(tokens, r.token[1])
           /\ phase' = IF r.token = <<>> THEN "scanned" ELSE phase
    /\ UNCHANGED <<compiler, stack, locals, frames, out, files, error,
                   overflow_checks, types, satisfied>>

ScanSpec == ScanInit /\ [][Scan]_vars

(***************************************************************************)
(* What the properties speak of.                                           *)
(***************************************************************************)
Frame == Top(Machine)
Code == Frame.function.chunk.code
\* the instruction VM::run executes next, and its operand
Fetching(op) == InRun /\ ~AtCodeEnd /\ Code[Frame.ip + 1] = op
Operand == read_u16(Code, Frame.ip + 1)
\* the script is between two top-level expressions
InScript == InRun /\ Len(frames) = 1
Compiled == Returned(compiler) /\ ~Failed(compiler)
Ended == phase \in {"done", "error", "panic", "compile_error"}

\* C1: for every program that compiles, when the bytecode of a top-level
\* expression has executed without error the value stack is as long as
\* before the expression: the script starts on an empty stack, so the stack
\* is empty at the end of every top-level expression.
C1_TopLevelStackRestored ==
    (InScript /\ Frame.ip \in compiler.marks) => Len(stack) = 0

\* C2: when the run of a called function or closure returns normally, the
\* locals stack is as long as when the call began.
C2_LocalsRestoredAtReturn ==
    (InRun /\ AtCodeEnd /\ Len(frames) > 1) => Len(locals) = Frame.base

\* C3: whenever GET_LOCAL i executes in a frame with base b, b + i is
\* within the locals stack.
C3_GetLocalInBounds ==
    Fetching(GET_LOCAL) => Frame.base + Operand < Len(locals)

\* C4: the step that executes MAKE_CLOSURE on function f leaves on the stack
\* a Closure of f with one upvalue per descriptor of f, entry j being
\* locals[base + index_j] when descriptor j is_local and the frame's
\* upvalues[index_j] otherwise, as they were when the step began; and a step
\* that pushes or pops a local leaves every closure that stays on the value
\* stack or the locals stack as it was, the pushed one included.
ClosureMade ==
    LET f == stack[Len(stack)].function
        closure == stack'[Len(stack')]
    IN  /\ Len(stack') = Len(stack)
        /\ closure.v = "Closure"
        /\ closure.function = f
        /\ Len(closure.upvalues) = Len(f.upvalues)
        /\ \A j \in 1..Len(f.upvalues) :
               closure.upvalues[j] =
                   IF f.upvalues[j].is_local
                   THEN locals[Frame.base + f.upvalues[j].index + 1]
                   ELSE Frame.upvalues[f.upvalues[j].index + 1]

ClosuresKept ==
    /\ \A p \in 1..Len(locals) :
           (p <= Len(locals') /\ locals[p].v = "Closure") => locals'[p] = locals[p]
    /\ \A p \in 1..Len(stack) :
           (p <= Len(stack') /\ stack[p].v = "Closure") => stack'[p] = stack[p]
    /\ (Fetching(PUSH_LOCAL) /\ stack[Len(stack)].v = "Closure")
           => locals'[Len(locals')] = stack[Len(stack)]

C4_ClosureCaptures ==
    [][/\ (Fetching(MAKE_CLOSURE) /\ phase' = "running") => ClosureMade
       /\ ((Fetching(PUSH_LOCAL) \/ Fetching(POP_LOCAL)) /\ phase' = "running")
              => ClosuresKept]_vars

\* MAKE_CLOSURE has just made a closure with a descriptor of each kind, and
\* another closure lies in the locals stack under a later local.
C4_Witness ==
    /\ InRun /\ Frame.ip > 0 /\ Code[Frame.ip] = MAKE_CLOSURE
    /\ stack # <<>> /\ stack[Len(stack)].v = "Closure"
    /\ \E i, j \in 1..Len(stack[Len(stack)].function.upvalues) :
           /\ stack[Len(stack)].function.upvalues[i].is_local
           /\ ~stack[Len(stack)].function.upvalues[j].is_local
    /\ \E p \in 1..Len(locals) : locals[p].v = "Closure" /\ p < Len(locals)

\* C5: in a program whose functions reference variables of the script from
\* k >= 1 function-nesting levels below, the step that executes GET_UPVALUE
\* pushes the value of the variable the reference resolved to, which is the
\* script's local at the index the upvalue descriptor carries; and the
\* closures on the way are made without the run failing.
C5_UpvalueReadsVariable ==
    [][/\ (tokens \in Upvalues /\ Fetching(GET_UPVALUE))
              => /\ phase' = "running"
                 /\ stack'[Len(stack')] =
                        locals[Frame.function.upvalues[Operand + 1].index + 1]
       /\ (tokens \in Upvalues /\ Fetching(MAKE_CLOSURE)) => phase' = "running"]_vars

\* The locals of the script named name, when compile has returned.
ScriptLocals(name) ==
    {l \in {compiler.functions[1].locals[i] :
                i \in 1..Len(compiler.functions[1].locals)} : l.name = name}

C7_RebindShadows ==
    tokens \in Rebindings
        => /\ Returned(compiler) => ~Failed(compiler)
           /\ Ended => (phase = "done" /\ out = <<"2\n">>)

\* C8: compiling a conditional whose condition has a static type other than
\* Boolean fails with a compile error.
C8_ConditionMustBeBoolean ==
    tokens \in NonBooleanConditions => (Returned(compiler) => Failed(compiler))

\* C9: when the then and the else branch of a conditional have different
\* static types among Number, String and Boolean compilation fails with
\* BranchTypeMismatch; when they have the same type compilation succeeds and
\* the conditional has that type (the type of the local bound to it).
C9_BranchTypes ==
    \A b1, b2 \in Branches :
        (tokens = ProgBranches(b1, b2) /\ Returned(compiler))
            => IF BranchKind(b1) # BranchKind(b2)
               THEN compiler.err.kind = "BranchTypeMismatch"
               ELSE /\ ~Failed(compiler)
                    /\ ScriptLocals("r") # {}
                    /\ \A l \in ScriptLocals("r") : l.type = BranchKind(b1)

\* compile has rejected a conditional with a Number and a String branch
C9_Witness ==
    /\ tokens = ProgBranches(<<Num(1), PLUS, Num(2)>>, <<Str("a")>>)
    /\ Returned(compiler)
    /\ compiler.err.kind = "BranchTypeMismatch"

\* C10: where an expression of static type Function with n parameters is
\* followed by a token other than `)`, newline and end-of-stream, compile
\* takes exactly n argument expressions, fails with ArgumentTypeMismatch when
\* one does not satisfy its parameter type, emits CALL n and gives the
\* expression the return type; followed by `)`, newline or end-of-stream it
\* emits no CALL and the expression keeps the function type.
C10_AutoCall ==
    \A case \in CallCases :
        (tokens = case.tokens /\ Returned(compiler))
            => IF case.err # ""
               THEN compiler.err.kind = case.err
               ELSE /\ ~Failed(compiler)
                    /\ compiler.functions[1].chunk.code
                           = <<PUSH, 0, 0, PUSH_LOCAL>> \o case.code
                    /\ ScriptLocals("r") # {}
                    /\ \A l \in ScriptLocals("r") : l.type = case.type

\* compile has returned from `r = h 1 "s" 3`: two arguments went to the
\* call, and the third is an expression of its own.
C10_Witness ==
    /\ tokens = DefineH \o <<Id("r"), EQ, Id("h"), Num(1), Str("s"), Num(3)>>
    /\ Compiled
    /\ \E i \in 1..(CodeLen(compiler) - 2) :
           SubSeq(compiler.functions[1].chunk.code, i, i + 2) = <<CALL, 0, 2>>

\* The function compiled last at the given depth below f: the last Function
\* among the constants, level by level.
RECURSIVE Innermost(_, _)
Innermost(f, levels) ==
    IF levels = 0 THEN f
    ELSE LET functions == SelectSeq(f.chunk.constants, LAMBDA k : k.v = "Function")
         IN  Innermost(functions[Len(functions)].function, levels - 1)

\* C11: identifiers resolve as local, then upvalue, then global: a name of
\* both a parameter of the current function and an enclosing local or a
\* built-in compiles to GET_LOCAL, a name of both an enclosing local and a
\* built-in to GET_UPVALUE, and GET_GLOBAL is emitted only where no local and
\* no enclosing local has the name.  The reference is the whole body of a
\* one-parameter function, so it is the instruction after PUSH_LOCAL.
C11_ResolutionOrder ==
    \A case \in ResolveCases :
        (tokens = case.tokens /\ Returned(compiler))
            => /\ ~Failed(compiler)
               /\ Innermost(compiler.functions[1], case.levels).chunk.code
                      = <<PUSH_LOCAL, case.op, 0, case.index, POP_LOCAL>>

\* compile has resolved `length`, a parameter of the enclosing function and
\* a built-in, to an upvalue
C11_Witness ==
    /\ tokens = <<Id("f")>> \o Param("length", "number") \o <<EQ, BSL>>
                    \o Param("x", "number") \o <<EQ, Id("length")>>
    /\ Compiled
    /\ Innermost(compiler.functions[1], 2).chunk.code[2] = GET_UPVALUE

\* The bytes of the code of every function compile has open.
OpenCode ==
    UNION {{compiler.functions[i].chunk.code[j] :
               j \in 1..Len(compiler.functions[i].chunk.code)} :
           i \in 1..Len(compiler.functions)}

C13_GroupOfOne ==
    tokens \in GroupsOfOne
        => /\ Returned(compiler)
               => /\ ~Failed(compiler)
                  /\ \A l \in ScriptLocals("r") : l.type = TNumber
           /\ Ended => (phase = "done" /\ out = <<"1\n">>)

\* C14: the array literal of the two Number expressions 1 and 2, with a
\* Nil-typed expression before, between or after them, is compiled with
\* MAKE_ARRAY 2 and makes the array of 1 and 2 in that order: the Nil-typed
\* expression contributes no element.
C14_ArrayLiteral ==
    tokens \in ListsWithNil
        => /\ Returned(compiler) => ~Failed(compiler)
           /\ Ended => (phase = "done" /\ out = <<"1\n", "2\n">>)

\* What the call of Type::satisfies was made on, once it has returned.
Self == types[1]
Constraint == types[2]
SatisfiesReturned == satisfied # <<>>

\* for every field (k, tB) of B a field (k, tA) of A with tA.satisfies(tB)
EveryFieldMatched(A, B) ==
    \A i \in 1..Len(B) :
        \E j \in 1..Len(A) : A[j].name = B[i].name /\ satisfies(A[j].type, B[i].type)

\* C15: for Block types A and B, repeated field names in A included,
\* Block(A).satisfies(Block(B)) is true exactly when every field (k, tB) of
\* B has a field (k, tA) in A with tA.satisfies(tB).
C15_BlockSatisfies ==
    (SatisfiesReturned /\ Self.t = "Block" /\ Constraint.t = "Block")
        => (satisfied[1] <=> EveryFieldMatched(Self.fields, Constraint.fields))

\* C16: Function(P1, R1).satisfies(Function(P2, R2)) is true exactly when P1
\* and P2 have the same number of parameters, each P1[i] satisfies P2[i],
\* and R1 satisfies R2.
C16_FunctionSatisfies ==
    (SatisfiesReturned /\ Self.t = "Function" /\ Constraint.t = "Function")
        => (satisfied[1]
               <=> /\ Len(Self.params) = Len(Constraint.params)
                   /\ \A i \in 1..Len(Self.params) :
                          i <= Len(Constraint.params)
                              => satisfies(Self.params[i], Constraint.params[i])
                   /\ satisfies(Self.ret, Constraint.ret))

\* C17: ADD, SUBTRACT, MULTIPLY, NEGATE and DIVIDE by a non-zero divisor on
\* Numbers push the wrapped 32-bit two's complement result and never abort
\* the run: each of these programs ends normally, having printed the
\* wrapped result.
C17_ArithmeticWraps ==
    \A case \in WrapCases :
        tokens = case.tokens
            => /\ phase \notin {"panic", "error", "compile_error"}
               /\ phase = "done" => out = case.out


\* C18: INDEX with an Array target of length L and a Number index n returns
\* Err(IndexOutOfBounds(n, L)) when n < 0 or n >= L, leaving the stack
\* without the two operands, and otherwise replaces the two operands by
\* element n of the array.
C18_IndexArray ==
    [][(Fetching(INDEX) /\ Len(stack) >= 2
            /\ stack[Len(stack) - 1].v = "Array" /\ stack[Len(stack)].v = "Number")
        => LET n == stack[Len(stack)].n
               l == stack[Len(stack) - 1].items
               below == SubSeq(stack, 1, Len(stack) - 2)
           IN  IF n < 0 \/ n >= Len(l)
               THEN /\ phase' = "error"
                    /\ error' = [kind |-> "IndexOutOfBounds", args |-> <<n, Len(l)>>]
                    /\ stack' = below
               ELSE /\ phase' = phase
                    /\ stack' = Append(below, l[n + 1])]_vars
C18_Witness ==
    /\ phase = "error" /\ error.kind = "IndexOutOfBounds" /\ error.args = <<-1, 2>>
    /\ Len(stack) = 1
C18_WitnessInBounds ==
    /\ tokens = IndexProg(2, 1) /\ phase = "done" /\ out = <<"20\n">>


\* C19: print and println leave the value stack as it was before their
\* GET_GLOBAL: GET_GLOBAL pushes the built-in on the stack and CALL 1 on
\* print or println with one argument above it removes the built-in and
\* the argument and nothing else, and the run goes on.
C19_PrintKeepsStack ==
    [][/\ (Fetching(GET_GLOBAL) /\ Operand \in {0, 1})
            => stack' = Append(stack, BuiltInV(Operand)) /\ phase' = phase
       /\ (Fetching(CALL) /\ Operand = 1 /\ Len(stack) >= 2
              /\ stack[Len(stack) - 1] \in {BuiltInV(0), BuiltInV(1)})
            => stack' = SubSeq(stack, 1, Len(stack) - 2) /\ phase' = phase]_vars
\* the inner print of println(print(1) 2) has returned
C19_Witness ==
    /\ tokens = ProgPrintInPrint("print", "println")
    /\ out = <<"1">> /\ stack = <<BuiltInV(1)>> /\ phase = "running"


\* the activation of Map::call, when it is the innermost one
InMap == phase = "running" /\ frames # <<>> /\ Frame.kind = "map"
\* the callback of that activation has just been entered
CallbackEntered ==
    /\ phase = "running" /\ Len(frames) >= 2 /\ Frame.kind = "run" /\ Frame.ip = 0
    /\ frames[Len(frames) - 1].kind = "map"

\* C20: map called at the top level of the script on an array xs of length
\* n and a callback the compiler accepted: the call does not fail; each
\* callback invocation starts on a stack holding xs[i] and i and nothing
\* else; between the invocations the stack is as it was below the two
\* arguments (empty) and new_list has one element per invocation made; the
\* call ends, and the array it pushed has length n and element i is the
\* callback's result for (xs[i], i).
C20_MapCollects ==
    /\ tokens \in Maps =>
          /\ phase \notin {"compile_error", "error", "panic"}
          /\ InMap /\ ~Frame.waiting =>
                /\ stack = <<>>
                /\ Len(Frame.new_list) = Frame.i
          /\ CallbackEntered =>
                LET map == frames[Len(frames) - 1]
                IN  stack = <<map.list[map.i + 1], NumberV(map.i)>>
    /\ \A case \in MapResults : tokens = case.tokens /\ phase = "done" => out = case.out


\* every token of a source, as a scan on its own returns them
RECURSIVE ScanAll(_, _)
ScanAll(s, scanned) ==
    LET r == next_token(s)
    IN  IF r.token = <<>> THEN scanned
        ELSE ScanAll(r.scanner, Append(scanned, r.token[1]))
Tokens(source) == ScanAll(NewScanner(source), <<>>)

\* source[p] is the first `#` of the source and source[q] the first "\n"
\* after it
CommentAt(source, p, q) ==
    /\ p < q /\ source[p] = "#" /\ source[q] = "\n"
    /\ \A i \in 1..(p - 1) : source[i] # "#"
    /\ \A i \in (p + 1)..(q - 1) : source[i] # "\n"

\* C21: a `#` outside a string starts a comment that ends with the next
\* "\n": the tokens of the source are the tokens of what precedes the `#`
\* followed by the tokens of what follows that "\n", also when the `#` is
\* immediately followed by the "\n".
C21_CommentEndsAtNewline ==
    phase = "scanned" =>
        \A p, q \in 1..Len(scanner.source) :
            CommentAt(scanner.source, p, q) =>
                tokens = Tokens(SubSeq(scanner.source, 1, p - 1))
                             \o Tokens(SubSeq(scanner.source, q + 1, Len(scanner.source)))


\* C22: for Number operands a, b, c and operators op1, op2 of + - * /,
\* println(a op1 b op2 c) compiles, runs to its end and prints the value
\* of a op1 (b op2 c) when op2 is * or / and op1 is + or -, and of
\* (a op1 b) op2 c otherwise: 1 + 2 * 3 is 7, a - b - c is (a - b) - c and
\* a / b / c is (a / b) / c.
C22_PrecedenceLadder ==
    /\ \A abc \in OperandTriples, op1, op2 \in Operators :
          tokens = PrecedenceProg(abc, op1, op2) =>
              /\ phase \notin {"compile_error", "error", "panic"}
              /\ phase = "done" =>
                    out = <<ToString(LadderValue(abc, op1, op2)) \o "\n">>
    /\ tokens = ProgArith /\ phase = "done" => out = <<"7\n">>
\* println(7 - 2 - 3) has printed 2 and println(12 / 3 / 2) would print 2
C22_Witness ==
    /\ tokens = PrecedenceProg(<<7, 2, 3>>, MINUS, MINUS)
    /\ phase = "done" /\ out = <<"2\n">>


\* the offsets of the opcodes of a chunk's code from offset i on
RECURSIVE OpcodesFrom(_, _)
OpcodesFrom(code, i) ==
    IF i >= Len(code) THEN {}
    ELSE {i} \cup OpcodesFrom(code, IF HasOperand(code[i + 1]) THEN i + 3 ELSE i + 1)
\* the offset of the one instruction `op` of the code
OffsetOf(code, op) == CHOOSE i \in OpcodesFrom(code, 0) : code[i + 1] = op
\* the script's chunk when compile has returned Ok
ScriptCode == compiler.functions[1].chunk.code

\* In the script of r = if c t [else e], with the JUMP_IF_FALSE at offset
\* p, the JUMP at offset j and the PUSH_LOCAL that binds r at offset q: the
\* code of e is the bytes j + 3 .. q - 1, so the target of the
\* JUMP_IF_FALSE is j + 3 and the target of the JUMP is q.
\* C23 as stated: each operand is the distance from the byte after the
\* jump's opcode to the jump's target, minus one.
C23_OperandIsDistanceMinusOne ==
    (tokens \in IfElses /\ Compiled) =>
        LET p == OffsetOf(ScriptCode, JUMP_IF_FALSE)
            j == OffsetOf(ScriptCode, JUMP)
            q == OffsetOf(ScriptCode, PUSH_LOCAL)
        IN  /\ read_u16(ScriptCode, p + 1) = ((j + 3) - (p + 1)) - 1
            /\ read_u16(ScriptCode, j + 1) = (q - (j + 1)) - 1

\* C23: the operand of the JUMP_IF_FALSE and of the JUMP of a conditional
\* is the distance from the byte after the jump's opcode (its first operand
\* byte) to the jump's target, that is the distance from the opcode to the
\* target minus one.
C23_JumpOperands ==
    (tokens \in IfElses /\ Compiled) =>
        LET p == OffsetOf(ScriptCode, JUMP_IF_FALSE)
            j == OffsetOf(ScriptCode, JUMP)
            q == OffsetOf(ScriptCode, PUSH_LOCAL)
        IN  /\ read_u16(ScriptCode, p + 1) = (j + 3) - (p + 1)
            /\ read_u16(ScriptCode, j + 1) = q - (j + 1)
\* r = if false 1 + 2 else 5 * 2 has compiled: the JUMP_IF_FALSE at offset 3
\* has operand 12 and the JUMP at offset 13 has operand 9
C23_Witness ==
    /\ tokens = IfProg(FALSE, <<Num(1), PLUS, Num(2)>>, <<Num(5), STAR, Num(2)>>)
    /\ Compiled
    /\ OffsetOf(ScriptCode, JUMP_IF_FALSE) = 3 /\ read_u16(ScriptCode, 4) = 12
    /\ OffsetOf(ScriptCode, JUMP) = 13 /\ read_u16(ScriptCode, 14) = 9


\* the ip of the innermost activation after the step
NextIp == frames'[Len(frames')].ip
\* the value of a branch <n> or <a> <op> <b>
BranchValue(b) == IF Len(b) = 1 THEN b[1].n ELSE Applied(b[2], b[1].n, b[3].n)

\* C24: a compiled if c t else e runs exactly one branch.  With the
\* JUMP_IF_FALSE at offset p, the JUMP at offset j and the code of e in
\* the bytes j + 3 .. q - 1: on false the JUMP_IF_FALSE sets ip to j + 3,
\* on true it goes on to t at p + 3 and the JUMP after t sets ip to q; the
\* run ends having bound r to the value of that one branch.  In every
\* program a jump leaves ip on an opcode of the chunk or at its end.
C24_OneBranchRuns ==
    /\ [][(Fetching(JUMP) \/ Fetching(JUMP_IF_FALSE)) =>
             /\ phase' = "running"
             /\ NextIp \in OpcodesFrom(Code, 0) \cup {Len(Code)}
             /\ \A cond \in BOOLEAN, t \in ThenBranches, e \in ElseBranches \ {<<>>} :
                   tokens = IfProg(cond, t, e) =>
                       LET p == OffsetOf(Code, JUMP_IF_FALSE)
                           j == OffsetOf(Code, JUMP)
                           q == OffsetOf(Code, PUSH_LOCAL)
                       IN  /\ Fetching(JUMP_IF_FALSE) =>
                                 NextIp = IF cond THEN p + 3 ELSE j + 3
                           /\ Fetching(JUMP) => cond /\ NextIp = q]_vars
    /\ [](\A cond \in BOOLEAN, t \in ThenBranches, e \in ElseBranches \ {<<>>} :
             tokens = IfProg(cond, t, e) =>
                 /\ phase \notin {"compile_error", "error", "panic"}
                 /\ phase = "done" =>
                       out = <<ToString(BranchValue(IF cond THEN t ELSE e)) \o "\n">>)
\* r = if false 1 + 2 else 5 * 2: the JUMP_IF_FALSE has set ip to the first
\* byte of the code of 5 * 2
C24_Witness ==
    /\ tokens = IfProg(FALSE, <<Num(1), PLUS, Num(2)>>, <<Num(5), STAR, Num(2)>>)
    /\ InRun /\ Frame.ip = OffsetOf(Code, JUMP) + 3 /\ stack = <<>> /\ locals = <<>>


\* C25: a lambda with parameters p1..pn called with arguments a1..an, as a
\* plain function, a closure or a callback of map or loop: the n
\* PUSH_LOCALs at the start of its chunk take the n arguments off the stack
\* into locals[base..], last argument first, and the run prints what the
\* body gives with every p_i read as a_i.
C25_CallingConvention ==
    \A case \in ConventionCases :
        tokens = case.tokens =>
            /\ phase \notin {"compile_error", "error", "panic"}
            /\ phase = "done" => out = case.out


\* C26: a block of static type A bound to a parameter annotated with a
\* Block type B that A satisfies: p.f in the function is the value of the
\* field named f of the block, whatever other fields A has and whatever
\* the order of A's fields.
C26_DotAccessByName ==
    \A case \in DotCases :
        tokens = DotProg(case[1], case[2], case[3]) =>
            /\ phase \notin {"compile_error", "error", "panic"}
            /\ phase = "done" => out = <<ToString(FieldValue(case[3])) \o "\n">>


\* C27: r = if c t without an else, t of type Number: when the run is at
\* the PUSH_LOCAL that follows the conditional's code the value stack holds
\* one value, the one PUSH_LOCAL binds to r, whether c was true or false;
\* the run does not fail.
C27_IfWithoutElseHeight ==
    \A cond \in BOOLEAN, t \in ThenBranches :
        tokens = IfProg(cond, t, <<>>) =>
            /\ phase \notin {"compile_error", "error", "panic"}
            /\ (InScript /\ Frame.ip = OffsetOf(Code, PUSH_LOCAL)) => Len(stack) = 1


\* C28: when fn x = body has compiled, the Function type of fn has
\* Unknown neither as its parameter type nor as its return type.
C28_NoUnknownInFunctionType ==
    (tokens \in Inferences /\ Compiled) =>
        /\ ScriptLocals("fn") # {}
        /\ \A l \in ScriptLocals("fn") :
              /\ l.type.t = "Function"
              /\ \A i \in 1..Len(l.type.params) : l.type.params[i] # TUnknown
              /\ l.type.ret # TUnknown


\* C29: loop called at the top level of the script, where the stack is
\* empty before loop's callee is pushed: the call does not fail and when
\* it has returned, at the end of the script's code, the stack is empty
\* again, also when the callback returns a value.
C29_LoopKeepsStack ==
    tokens \in Loops =>
        /\ phase \notin {"compile_error", "error", "panic"}
        /\ (InScript /\ AtCodeEnd) => stack = <<>>
        /\ phase = "done" => stack = <<>>


\* C30: assert_type on an Unknown last expression patches the parameter
\* whose reference gave the Unknown: fn x y: number = x - y makes x a
\* Number.  When the Unknown is a captured variable of the enclosing
\* function or a call result, compile does not abort and no local changes
\* type: the lambda's y stays a String, and id stays a Function.
C30_PatchOnlyReferencedParameter ==
    /\ tokens \in Assertions => phase \notin {"panic", "compile_error"}
    /\ (tokens = ProgAssertParameter /\ Compiled) =>
          \A l \in ScriptLocals("fn") :
              l.type = TFunction(<<TNumber, TNumber>>, TNumber)
    /\ (tokens = ProgAssertUpvalueAfterLocal /\ Compiled) =>
          \A l \in ScriptLocals("f") : l.type.ret.params = <<TString>>
    /\ (tokens = ProgAssertCallResult /\ Compiled) =>
          \A l \in ScriptLocals("id") : l.type.t = "Function"

====
